---- MODULE Spec2Model ----
(***************************************************************************)
(* Verification model of the LORAN / e-LORAN simulation engine:            *)
(*   src/src/components/Eloran.jsx    (e-Loran simulator component)        *)
(*   src/src/components/Loranc.jsx    (Loran-C simulator + inline worker)  *)
(*   src/src/workers/gridWorker.js    (e-Loran grid worker)                *)
(*                                                                         *)
(* Numbers.  JavaScript numbers are modelled by integers plus the values   *)
(* NaN and undefined; lengths and times are held in the units given below. *)
(***************************************************************************)
EXTENDS Integers, Sequences, FiniteSets, TLC

(***************************************************************************)
(* Bounds of the model.                                                    *)
(***************************************************************************)
MaxSimTime == 2
MaxStations == 1
MaxRequests == 2
MaxCancels == 1

VARIABLES
  impl,          \* which simulator component is mounted: "Eloran" or "Loranc"
  simTime,       \* simTimeRef.current, seconds (Eloran)
  nMasters,      \* masters.length
  nSlaves,       \* slaves.length
  nReceivers,    \* receivers.length
  asfFn,         \* some master carries a function asfMap (Eloran)
  hasSimResults, \* simulationResults is not null
  gridStatus,    \* gridStatus.status as the component reads it, or "null"
  sampling,      \* computeGrid calls suspended at `await sampleAsfRastersForMasters`
  workerInbox,   \* messages answered to the grid worker, not yet dispatched
  mainInbox,     \* messages answered by the grid worker, not yet handled
  wpc,           \* the grid worker's position: "idle", "tdoa", "contours"
  wreq,          \* the request the grid worker is processing (0: none)
  cancelled,     \* the Loranc worker's `cancelled` flag
  nextReq,       \* number of compute requests issued so far
  nCancels,      \* number of cancel messages sent so far
  cancelDuring,  \* requests that were being processed when a cancel was sent
  answered,      \* the answers the worker answered for the requests in cancelDuring
  clockHigh      \* the largest value simTime has held

sessVars == <<impl, simTime, nMasters, nSlaves, nReceivers, asfFn, hasSimResults,
              gridStatus, sampling, workerInbox, mainInbox, wpc, wreq, cancelled,
              nextReq, nCancels, cancelDuring, answered, clockHigh>>


Max(a, b) == IF a >= b THEN a ELSE b
Min(a, b) == IF a <= b THEN a ELSE b
Abs(a) == IF a >= 0 THEN a ELSE 0 - a

(***************************************************************************)
(* JavaScript numbers.  NaN and undefined are two values outside the range  *)
(* the model's numbers take; every arithmetic operator below treats them as *)
(* JavaScript does.                                                        *)
(***************************************************************************)
NaN == -2000000001
Undef == -2000000002

IsNum(v) == v # NaN /\ v # Undef
\* a + b, a - b, -a, with NaN and undefined operands giving NaN
Add(a, b) == IF IsNum(a) /\ IsNum(b) THEN a + b ELSE NaN
Sub(a, b) == IF IsNum(a) /\ IsNum(b) THEN a - b ELSE NaN
Neg(a) == IF IsNum(a) THEN 0 - a ELSE NaN
\* v || 0 : undefined, NaN and 0 are falsy
OrZero(v) == IF IsNum(v) THEN v ELSE 0
\* v >= 0 : false for NaN
GeZero(v) == IsNum(v) /\ v >= 0

RECURSIVE SqrtSearch(_, _, _)
SqrtSearch(n, lo, hi) ==
  IF lo >= hi THEN lo
  ELSE LET mid == (lo + hi + 1) \div 2 IN
       IF mid * mid <= n THEN SqrtSearch(n, mid, hi) ELSE SqrtSearch(n, lo, mid - 1)
\* the integer part of the square root
ISqrt(n) == SqrtSearch(n, 0, 46340)

\* Math.hypot(a, b): NaN when an argument is NaN
Hypot(a, b) == IF IsNum(a) /\ IsNum(b) THEN ISqrt(a * a + b * b) ELSE NaN

(***************************************************************************)
(* Units.  Geodetic coordinates are held in units of 1e-5 degree, lengths   *)
(* in metres, times in light-metres (seconds multiplied by the propagation  *)
(* speed, so that the code's divisions and multiplications by C.c are exact *)
(* unit conversions).  The scenarios lie within a few kilometres of (0, 0), *)
(* where the spherical Mercator projection and the great-circle distance    *)
(* are linear in the coordinates and the cosine of the latitude is 1: one   *)
(* coordinate unit is 1.1132 m of projected length (R = 6378137) and        *)
(* 1.1120 m of great-circle length (R = 6371000).                           *)
(***************************************************************************)

\* proj4('EPSG:4326','EPSG:3857', .) on one coordinate
Proj(u) == (u * 11132) \div 10000
\* proj4('EPSG:3857','EPSG:4326', .) on one coordinate
ProjInv(x) == (x * 10000) \div 11132
\* the arc length of a coordinate difference on the sphere of haversine()
Arc(du) == IF IsNum(du) THEN (du * 11120) \div 10000 ELSE NaN

\* haversine(a, b) of Eloran.jsx: great-circle distance of two lat/lng points
Haversine(a, b) == Hypot(Arc(Sub(b.lat, a.lat)), Arc(Sub(b.lng, a.lng)))

\* haversineMeters(a, b) of gridWorker.js: great-circle distance when both points
\* carry lat, else the Euclidean distance of their x, y
HaversineMeters(a, b) ==
  IF a.lat # Undef /\ b.lat # Undef
  THEN Haversine(a, b)
  ELSE Hypot(Sub(a.x, b.x), Sub(a.y, b.y))

(***************************************************************************)
(* Grid computation: computeGrid of Eloran.jsx and Loranc.jsx, the worker   *)
(* of gridWorker.js, the inline worker of Loranc.jsx.                       *)
(***************************************************************************)
MaxGridStations == 2
GridN == 3

VARIABLES
  gMasters,    \* masters, as the component holds them
  gSlaves,     \* slaves
  gReceivers,  \* receivers
  gSimTime,    \* simTimeRef.current when computeGrid runs
  gCarry,      \* the coordinates the stations of the worker request carry
  gpc,         \* how far the grid scenario has been computed
  gBounds,     \* gridBounds of Eloran's computeGrid
  gBoundsL,    \* gridBounds of Loranc's computeGrid
  gWorker,     \* result payload of gridWorker.js
  gFallback,   \* maps and contours of the main-thread fallback
  gAlt,        \* the clock inputs of the second run
  gAltWorker,  \* result payload of gridWorker.js in the second run
  gAltFallback,\* maps and contours of the fallback in the second run
  gSwap,       \* the master and the slave exchanged in the exchanged run
  gSwapWorker, \* result payload of gridWorker.js in the exchanged run
  gLoranc,     \* tdoaMaps of the Loranc worker
  gSwapLoranc  \* tdoaMaps of the Loranc worker in the exchanged run

gridVars == <<gMasters, gSlaves, gReceivers, gSimTime, gCarry, gpc, gBounds, gBoundsL,
              gWorker, gFallback, gAlt, gAltWorker, gAltFallback, gSwap, gSwapWorker,
              gLoranc, gSwapLoranc>>

\* masters as addMaster creates them and editMasterConfig, applyAsfToMaster and the
\* Reset DiffCorr button edit them
MasterCatalogue ==
  << [lat |-> 0, lng |-> 0, biasSec |-> 0, driftPerSec |-> 0,
      diffEnabled |-> TRUE, avgMeters |-> 0, asfFunction |-> FALSE],
     [lat |-> 0, lng |-> 6000, biasSec |-> 7, driftPerSec |-> 3,
      diffEnabled |-> TRUE, avgMeters |-> 5, asfFunction |-> TRUE],
     [lat |-> 4000, lng |-> 2, biasSec |-> 0, driftPerSec |-> 2,
      diffEnabled |-> FALSE, avgMeters |-> 0, asfFunction |-> FALSE] >>

\* slaves as addSlave and the CSV import create them
SlaveCatalogue ==
  << [lat |-> 0, lng |-> 6000, offsetSec |-> 0],
     [lat |-> 5000, lng |-> 3000, offsetSec |-> 11],
     [lat |-> 0, lng |-> 0, offsetSec |-> 4] >>

ReceiverCatalogue == << [lat |-> 3000, lng |-> 3000] >>

GridTimes == {0, 2}
Carries == {"both", "xy", "latlng"}

\* the clock inputs a second run may have instead
AltClocks ==
  { [biasSec |-> 0, driftPerSec |-> 0, offsetSec |-> 0, simTime |-> 0],
    [biasSec |-> 13, driftPerSec |-> 1, offsetSec |-> 6, simTime |-> 2] }

VARIABLES
  sPairs,      \* pairs: master, slave and observed tdoaSec of each slave
  sTruth,      \* the receiver position the observations were taken at
  sGuess,      \* initialLngLat
  sx0, sy0,    \* the solver's current estimate, local planar metres
  sIter,       \* iter
  spc,         \* the solver's position: "none", "call", "loop", "return", "done"
  sJTJ,        \* JTJ_final
  sRes,        \* r_final
  sOut         \* the value solvePositionFromTDOA returned

solverVars == <<sPairs, sTruth, sGuess, sx0, sy0, sIter, spc, sJTJ, sRes, sOut>>

VARIABLES
  cMasters,     \* masters, with their diffCorrections
  cSlaves,      \* slaves
  cReceivers,   \* receivers
  cSimTime,     \* simTimeRef.current, seconds
  cJitterMs,    \* detectJitterMs
  cSky,         \* skyEnabled
  cSkyDelayMs,  \* skyDelayMs
  cpc,          \* "none", "setup", "simulated", "calibrated", "recalibrated"
  cResults,     \* simulationResults
  cSimulatedAt, \* simTimeRef.current when simulationResults was computed
  cInjected     \* per master, the differential bias its simulated arrivals carry

calVars == <<cMasters, cSlaves, cReceivers, cSimTime, cJitterMs, cSky, cSkyDelayMs, cpc,
             cResults, cSimulatedAt, cInjected>>

VARIABLES
  eMasters,     \* masters
  eSlaves,      \* slaves
  eReceivers,   \* receivers, with fuseMode and lastFix
  eSimTime,     \* simTimeRef.current, seconds
  eMode,        \* estimatorMode
  eChecks,      \* enableIntegrityChecks
  eThreshold,   \* integrityThresholdMeters, in decimetres
  eLog,         \* logEvents
  eCalls,       \* the number of estimateReceiver calls made
  eCall         \* the last estimateReceiver call: what it computed

estVars == <<eMasters, eSlaves, eReceivers, eSimTime, eMode, eChecks, eThreshold, eLog,
             eCalls, eCall>>

VARIABLES
  kVariant,    \* the component: "Eloran", "Loranc", or "part_007" (the earlier Loranc)
  kMasters,    \* masters: label, lat, lng
  kSlaves,     \* slaves
  kReceivers,  \* receivers
  kCounter,    \* masterCounter, slaveCounter, receiverCounter
  kPlaced,     \* the number of placements made
  kImports,    \* the number of CSV imports made
  kTable,      \* results.data of the last import
  kValidRows,  \* validRows of the last import
  kErrors      \* errors of the last import

stationsVars == <<kVariant, kMasters, kSlaves, kReceivers, kCounter, kPlaced, kImports, kTable,
                  kValidRows, kErrors>>

VARIABLES
  aMasters,   \* masters: label and asfMap (the identifiers its code references, or NoAsf)
  aWorkerOk,  \* whether the Worker constructor succeeds
  aPending,   \* the validations waiting for a message of the worker: code and target
  aInbox,     \* the messages posted to the worker
  aOutbox,    \* the messages the worker posted back
  aApplies    \* the number of applyAsfToMaster calls made

asfVars == <<aMasters, aWorkerOk, aPending, aInbox, aOutbox, aApplies>>

VARIABLES
  tVariant,    \* the extractor: "Loranc", "part_007" (the earlier Loranc) or "gridWorker"
  tGrid,       \* the grid of values, row-major
  tLevel,      \* the level
  tSegments,   \* segments of the level: the cell, the two points and the edges they are on
  tPolylines,  \* the polylines returned: points, the segments walked, the pass that made it
  tDone        \* whether the extraction has run

contourVars == <<tVariant, tGrid, tLevel, tSegments, tPolylines, tDone>>

VARIABLES
  vVariant,      \* "Eloran", "Loranc", or "worker": the inline worker of Loranc.jsx on its own
  vMasters,      \* masters
  vSlaves,       \* slaves
  vLevelsMeters, \* levelsMeters of computeGrid
  vRequest,      \* levelsMeters of the computeGrid message (<< >> where it carries none)
  vContours,     \* the levels the worker extracts contours at, in order
  vpc            \* "input", "posted", "done"; "none" with no scenario

levelVars == <<vVariant, vMasters, vSlaves, vLevelsMeters, vRequest, vContours, vpc>>

VARIABLES
  dMasters,     \* masters: label, ddsEnabled and diffCorrections
  dGlobal,      \* enableDDSGlobal
  dChecks,      \* enableIntegrityChecks
  dTimer,       \* what the broadcastDDS of the running interval closes over
  dSimTime,     \* simTimeRef.current, seconds
  dLog,         \* logEvents
  dBatch,       \* the number of events of the last append to logEvents
  dBroadcasts,  \* the number of broadcastDDS calls made
  dEstimates    \* the number of estimateReceiver calls made

ddsVars == <<dMasters, dGlobal, dChecks, dTimer, dSimTime, dLog, dBatch, dBroadcasts,
             dEstimates>>

VARIABLES
  qMasters,   \* masterList of sampleAsfRastersForMasters: label and the kind of its asfMap
  qIndex,     \* mi, the master the loop is at
  qWaiting,   \* whether the listener of the current sampleBatch call is registered
  qInbox,     \* the sampleBatch messages the worker has not handled: the master of each
  qOutbox,    \* the worker's messages on their way to the main thread
  qRasters,   \* rasters
  qTimedOut,  \* the masters whose sampleBatch call was rejected by its timer
  qDone       \* whether rasters was returned

samplingVars == <<qMasters, qIndex, qWaiting, qInbox, qOutbox, qRasters, qTimedOut, qDone>>

\* the variables of the parts that follow the calibration part
laterVars == <<estVars, stationsVars, asfVars, contourVars, levelVars, ddsVars, samplingVars>>

\* what the actions of each part leave alone
outsideSession == <<gridVars, solverVars, calVars, laterVars>>
outsideGrid == <<sessVars, solverVars, calVars, laterVars>>
outsideSolver == <<sessVars, gridVars, calVars, laterVars>>
outsideCal == <<sessVars, gridVars, solverVars, laterVars>>
outsideEst == <<sessVars, gridVars, solverVars, calVars, stationsVars, asfVars, contourVars, levelVars,
  ddsVars, samplingVars>>
outsideStations == <<sessVars, gridVars, solverVars, calVars, estVars, asfVars, contourVars, levelVars,
  ddsVars, samplingVars>>
outsideAsf == <<sessVars, gridVars, solverVars, calVars, estVars, stationsVars, contourVars, levelVars,
  ddsVars, samplingVars>>
outsideContour == <<sessVars, gridVars, solverVars, calVars, estVars, stationsVars, asfVars,
                    levelVars, ddsVars, samplingVars>>
outsideLevel == <<sessVars, gridVars, solverVars, calVars, estVars, stationsVars, asfVars,
                  contourVars, ddsVars, samplingVars>>
outsideDds == <<sessVars, gridVars, solverVars, calVars, estVars, stationsVars, asfVars,
                contourVars, levelVars, samplingVars>>
outsideSampling == <<sessVars, gridVars, solverVars, calVars, estVars, stationsVars, asfVars,
                     contourVars, levelVars, ddsVars>>

\* the k-th smallest element of a set of numbers
Nth(S, k) == CHOOSE i \in S : Cardinality({ j \in S : j < i }) = k - 1

\* the lists of at most n stations of a catalogue, in the catalogue's order
PicksUpTo(cat, n) ==
  { [k \in 1..Cardinality(S) |-> cat[Nth(S, k)]] :
      S \in { T \in SUBSET DOMAIN cat : Cardinality(T) \in 1..n } }
Picks(cat) == PicksUpTo(cat, MaxGridStations)

MinOf(S) == CHOOSE v \in S : \A w \in S : v <= w
MaxOf(S) == CHOOSE v \in S : \A w \in S : v >= w
Range(f) == { f[k] : k \in DOMAIN f }

\* the projected corners of a padded bounding box
GridBoundsOf(bboxP) ==
  [minX |-> Proj(bboxP[1]), minY |-> Proj(bboxP[2]),
   maxX |-> Proj(bboxP[3]), maxY |-> Proj(bboxP[4])]

\* bbox of all stations: [min lng, min lat, max lng, max lat]
BBox(all) ==
  LET lats == { a.lat : a \in Range(all) }
      lngs == { a.lng : a \in Range(all) }
  IN  << MinOf(lngs), MinOf(lats), MaxOf(lngs), MaxOf(lats) >>

\* an axis of the bbox widened by 0.01 degree each way when it spans less than 1e-6 degree
\* (of the spans the coordinate unit can express, the zero span)
Protect(lo, hi) == IF Abs(hi - lo) < 1 THEN << lo - 1000, hi + 1000 >> ELSE << lo, hi >>
\* Math.max(span * 0.35, 0.01)
PadEloran(span) == Max((span * 35) \div 100, 1000)

\* gridBounds of Eloran's computeGrid
GridBoundsEloran(all) ==
  LET bbox == BBox(all)
      bx == Protect(bbox[1], bbox[3])
      by == Protect(bbox[2], bbox[4])
      padX == PadEloran(bx[2] - bx[1])
      padY == PadEloran(by[2] - by[1])
  IN  GridBoundsOf(<< bx[1] - padX, by[1] - padY, bx[2] + padX, by[2] + padY >>)

\* span * 0.3
PadLoranc(span) == (span * 3) \div 10

\* gridBounds of Loranc's computeGrid
GridBoundsLoranc(all) ==
  LET bbox == BBox(all)
      padX == PadLoranc(bbox[3] - bbox[1])
      padY == PadLoranc(bbox[4] - bbox[2])
  IN  GridBoundsOf(<< bbox[1] - padX, bbox[2] - padY, bbox[3] + padX, bbox[4] + padY >>)

\* the cell size and the cell coordinates of a grid of GridN by GridN cells
Dx(gb) == (gb.maxX - gb.minX) \div (GridN - 1)
Dy(gb) == (gb.maxY - gb.minY) \div (GridN - 1)
CellI(idx) == idx % GridN
CellJ(idx) == idx \div GridN
CellX(gb, i) == gb.minX + i * Dx(gb)
CellY(gb, j) == gb.minY + j * Dy(gb)
\* the raster indices, row-major, counted from 1 as the model's sequences are
Cells == 1..(GridN * GridN)

\* mMeters, sMeters of Eloran's computeGrid: the station with its projected x, y
MMeters(m) ==
  [x |-> Proj(m.lng), y |-> Proj(m.lat), lat |-> m.lat, lng |-> m.lng,
   asfFunction |-> m.asfFunction, biasSec |-> m.biasSec, driftPerSec |-> m.driftPerSec,
   offsetSec |-> Undef, diffEnabled |-> m.diffEnabled, avgMeters |-> m.avgMeters,
   asfMeters |-> Undef]
SMeters(s) ==
  [x |-> Proj(s.lng), y |-> Proj(s.lat), lat |-> s.lat, lng |-> s.lng,
   asfFunction |-> FALSE, biasSec |-> Undef, driftPerSec |-> Undef,
   offsetSec |-> OrZero(s.offsetSec), diffEnabled |-> FALSE, avgMeters |-> Undef,
   asfMeters |-> Undef]

\* mForWorker, sForWorker: the copies answered to the worker
MForWorker(m) == [m EXCEPT !.offsetSec = 0, !.asfMeters = Undef, !.asfFunction = FALSE]
SForWorker(s) == [s EXCEPT !.offsetSec = OrZero(s.offsetSec), !.asfMeters = Undef]

\* a request station carrying lat/lng, x/y or both
Carried(st, carry) ==
  [st EXCEPT !.x = IF carry = "latlng" THEN Undef ELSE st.x,
             !.y = IF carry = "latlng" THEN Undef ELSE st.y,
             !.lat = IF carry = "xy" THEN Undef ELSE st.lat,
             !.lng = IF carry = "xy" THEN Undef ELSE st.lng]

\* the value a function asfMap returns at a point: a plane over the area
AsfValue(lat, lng) == 3 + ((lat + lng) \div 1000)

\* sampleAsfRastersForMasters: per master, the function asfMap sampled at every cell, or null (<<>>)
SampleAsfRasters(mMeters, gb) ==
  [mi \in DOMAIN mMeters |->
     IF mMeters[mi].asfFunction
     THEN [idx \in Cells |->
             AsfValue(ProjInv(CellY(gb, CellJ(idx - 1))), ProjInv(CellX(gb, CellI(idx - 1))))]
     ELSE << >>]

\* asfRasters of the request: null unless some master has a function asfMap
AsfRastersOf(mMeters, gb) ==
  IF \E mi \in DOMAIN mMeters : mMeters[mi].asfFunction
  THEN SampleAsfRasters(mMeters, gb)
  ELSE [mi \in DOMAIN mMeters |-> << >>]

\* simulateClockTick: (biasSec || 0) + (driftPerSec || 0) * tSec
SimulateClockTick(st, t) == OrZero(st.biasSec) + OrZero(st.driftPerSec) * t

\* the pair constant with the drift term left out
PairConstSecNoDrift(m, s, t) ==
  (OrZero(s.biasSec) + OrZero(s.offsetSec)) - (OrZero(m.biasSec) + OrZero(m.offsetSec))

\* pairConstSec: (slave clock offset + slave offsetSec) - (master clock offset + master offsetSec)
PairConstSec(m, s, t) ==
  (SimulateClockTick(s, t) + OrZero(s.offsetSec))
    - (SimulateClockTick(m, t) + OrZero(m.offsetSec))

\* diffCorrections && diffCorrections.enabled ? (avgMeters || 0) : 0
DiffCorrMeters(st) == IF st.diffEnabled THEN OrZero(st.avgMeters) ELSE 0

\* the raster entry at idx of the arrays parallel to the masters, or the station's asfMeters
AsfAt(asfArrays, k, st, idx) ==
  IF k \in DOMAIN asfArrays /\ asfArrays[k] # << >> THEN OrZero(asfArrays[k][idx])
  ELSE IF st.asfMeters # Undef THEN OrZero(st.asfMeters)
  ELSE 0

\* distM, distS of the worker: from the station to the cell at x, y
WorkerDist(st, x, y) ==
  IF st.lat # Undef /\ st.lng # Undef
  THEN HaversineMeters([lat |-> st.lat, lng |-> st.lng, x |-> Undef, y |-> Undef],
                       [lat |-> Undef, lng |-> Undef, x |-> x, y |-> y])
  ELSE Hypot(Sub(st.x, x), Sub(st.y, y))

\* arrivalM, arrivalS of the worker
WorkerArrival(st, dist, asf, t) ==
  Add(Add(Add(dist, OrZero(st.offsetSec)), SimulateClockTick(st, t)), asf - DiffCorrMeters(st))

\* grid[idx] of the worker for the pair mi, si (the model's idx counts from 1)
WorkerCell(req, mi, si, idx) ==
  LET m == req.mMeters[mi]
      s == req.sMeters[si]
      x == CellX(req.gridBounds, CellI(idx - 1))
      y == CellY(req.gridBounds, CellJ(idx - 1))
      asfM == AsfAt(req.asfRasters, mi, m, idx)
      asfS == AsfAt(req.asfRasters, si, s, idx)
      arrivalM == WorkerArrival(m, WorkerDist(m, x, y), asfM, req.simTimeSec)
      arrivalS == WorkerArrival(s, WorkerDist(s, x, y), asfS, req.simTimeSec)
  IN  Sub(Sub(arrivalS, arrivalM), PairConstSec(m, s, req.simTimeSec))

\* interp of marchingSquaresZero, one coordinate: x1 + (x2 - x1) * t
\* with t = 0.5 if v1 === v2, else |v1| / (|v1| + |v2|)
Interp(x1, v1, x2, v2) ==
  IF ~IsNum(v1) \/ ~IsNum(v2) THEN NaN
  ELSE IF v1 = v2 THEN x1 + ((x2 - x1) \div 2)
  ELSE x1 + (((x2 - x1) * Abs(v1)) \div (Abs(v1) + Abs(v2)))

\* the crossing of the edge from corner a to corner b, if its ends differ in sign
EdgePoint(a, b) ==
  IF GeZero(a.v) # GeZero(b.v)
  THEN << << Interp(a.x, a.v, b.x, b.v), Interp(a.y, a.v, b.y, b.v) >> >>
  ELSE << >>

\* caseIndex of a cell: bit 1 for v00, 2 for v10, 4 for v11, 8 for v01
CaseIndex(v00, v10, v11, v01) ==
  (IF GeZero(v00) THEN 1 ELSE 0) + (IF GeZero(v10) THEN 2 ELSE 0)
    + (IF GeZero(v11) THEN 4 ELSE 0) + (IF GeZero(v01) THEN 8 ELSE 0)

\* the points marchingSquaresZero collects in the cell whose lower corner is i, j:
\* left, top, right, bottom edge in that order
CellPoints(grid, gb, i, j) ==
  LET c00 == [x |-> CellX(gb, i), y |-> CellY(gb, j), v |-> grid[j * GridN + i + 1]]
      c10 == [x |-> CellX(gb, i + 1), y |-> CellY(gb, j), v |-> grid[j * GridN + i + 2]]
      c01 == [x |-> CellX(gb, i), y |-> CellY(gb, j + 1), v |-> grid[(j + 1) * GridN + i + 1]]
      c11 == [x |-> CellX(gb, i + 1), y |-> CellY(gb, j + 1), v |-> grid[(j + 1) * GridN + i + 2]]
      caseIndex == CaseIndex(c00.v, c10.v, c11.v, c01.v)
  IN  IF caseIndex = 0 \/ caseIndex = 15 THEN << >>
      ELSE EdgePoint(c00, c01) \o EdgePoint(c00, c10) \o EdgePoint(c10, c11) \o EdgePoint(c01, c11)

\* marchingSquaresZero: the cells' point lists of two or more points, row by row
MarchingSquaresZero(grid, gb) ==
  LET n == GridN - 1
      all == [c \in 1..(n * n) |-> CellPoints(grid, gb, (c - 1) % n, (c - 1) \div n)]
  IN  SelectSeq(all, LAMBDA pts : Len(pts) >= 2)

\* the pairs in the order of the loops: master by master, slave by slave
PairOf(k, nS) == [mi |-> ((k - 1) \div nS) + 1, si |-> ((k - 1) % nS) + 1]

RECURSIVE Flatten(_)
Flatten(ss) == IF ss = << >> THEN << >> ELSE Head(ss) \o Flatten(Tail(ss))

\* onmessage of gridWorker.js: maps and contours of every pair
GridWorkerResult(req) ==
  LET nM == Len(req.mMeters)
      nS == Len(req.sMeters)
      maps == [k \in 1..(nM * nS) |->
                 LET p == PairOf(k, nS) IN
                 [masterIndex |-> p.mi, slaveIndex |-> p.si,
                  data |-> [idx \in Cells |-> WorkerCell(req, p.mi, p.si, idx)]]]
      lines == [k \in 1..(nM * nS) |->
                  LET ms == MarchingSquaresZero(maps[k].data, req.gridBounds) IN
                  [l \in DOMAIN ms |->
                     [masterIndex |-> maps[k].masterIndex, slaveIndex |-> maps[k].slaveIndex,
                      points |-> ms[l]]]]
  IN  [maps |-> maps, contours |-> Flatten(lines)]

\* the computeGrid request Eloran's computeGrid answers to gridWorker.js
WorkerRequest(mastersC, slavesC, gb, t, carry) ==
  LET mMeters == [k \in DOMAIN mastersC |-> MMeters(mastersC[k])]
      sMeters == [k \in DOMAIN slavesC |-> SMeters(slavesC[k])]
  IN  [mMeters |-> [k \in DOMAIN mMeters |-> Carried(MForWorker(mMeters[k]), carry)],
       sMeters |-> [k \in DOMAIN sMeters |-> Carried(SForWorker(sMeters[k]), carry)],
       gridBounds |-> gb, simTimeSec |-> t,
       asfRasters |-> AsfRastersOf(mMeters, gb)]

\* computeArrivalSec of Eloran.jsx: arrival at the point lat, lng
ComputeArrivalSec(st, lat, lng, t) ==
  LET dist == Haversine([lat |-> st.lat, lng |-> st.lng], [lat |-> lat, lng |-> lng])
      asfMeters == IF st.asfFunction THEN OrZero(AsfValue(lat, lng)) ELSE 0
  IN  Add(Add(Add(dist, OrZero(st.offsetSec)), OrZero(SimulateClockTick(st, t))),
          asfMeters - DiffCorrMeters(st))

\* grid[idx] of the main-thread fallback for the pair m, s
FallbackCell(m, s, gb, t, idx) ==
  LET latc == ProjInv(CellY(gb, CellJ(idx - 1)))
      lngc == ProjInv(CellX(gb, CellI(idx - 1)))
  IN  Sub(Sub(ComputeArrivalSec(s, latc, lngc, t), ComputeArrivalSec(m, latc, lngc, t)),
          PairConstSec(m, s, t))

\* a === 0 || b === 0 || (a<0 && b>0) || (a>0 && b<0)
SignChange(a, b) ==
  a = 0 \/ b = 0 \/ (IsNum(a) /\ IsNum(b) /\ ((a < 0 /\ b > 0) \/ (a > 0 /\ b < 0)))

\* poly of the fallback: the left ends of the horizontal steps at which the sign changes
FallbackPoly(grid, gb) ==
  LET n == GridN - 1
      steps == [c \in 1..(GridN * n) |-> [i |-> (c - 1) % n, j |-> (c - 1) \div n]]
      hit == SelectSeq(steps, LAMBDA st :
               SignChange(grid[st.j * GridN + st.i + 1], grid[st.j * GridN + st.i + 2]))
  IN  [k \in DOMAIN hit |-> << CellX(gb, hit[k].i), CellY(gb, hit[k].j) >>]

\* the synchronous fallback of Eloran's computeGrid: maps and contours of every pair
FallbackResult(mastersC, slavesC, gb, t) ==
  LET nM == Len(mastersC)
      nS == Len(slavesC)
      maps == [k \in 1..(nM * nS) |->
                 LET p == PairOf(k, nS) IN
                 [masterIndex |-> p.mi, slaveIndex |-> p.si,
                  data |-> [idx \in Cells |->
                              FallbackCell(MMeters(mastersC[p.mi]), SMeters(slavesC[p.si]),
                                           gb, t, idx)]]]
      polys == [k \in 1..(nM * nS) |->
                  LET poly == FallbackPoly(maps[k].data, gb) IN
                  IF Len(poly) > 1
                  THEN << [masterIndex |-> maps[k].masterIndex,
                           slaveIndex |-> maps[k].slaveIndex, points |-> poly] >>
                  ELSE << >>]
  IN  [maps |-> maps, contours |-> Flatten(polys)]

\* grid[idx] of the Loranc worker: dS - dM
LorancCell(m, s, gb, idx) ==
  LET x == CellX(gb, CellI(idx - 1))
      y == CellY(gb, CellJ(idx - 1))
  IN  Sub(Hypot(Sub(x, s.x), Sub(y, s.y)), Hypot(Sub(x, m.x), Sub(y, m.y)))

\* mMeters, sMeters of Loranc's computeGrid: projected x, y only
LorancMeters(st) == [x |-> Proj(st.lng), y |-> Proj(st.lat)]

\* tdoaMaps of the Loranc worker
LorancMaps(mMeters, sMeters, gb) ==
  LET nM == Len(mMeters)
      nS == Len(sMeters)
  IN  [k \in 1..(nM * nS) |->
         LET p == PairOf(k, nS) IN
         [masterIndex |-> p.mi, slaveIndex |-> p.si,
          data |-> [idx \in Cells |-> LorancCell(mMeters[p.mi], sMeters[p.si], gb, idx)]]]

\* the stations with the clock inputs of a second run
WithClock(m, alt) == [m EXCEPT !.biasSec = alt.biasSec, !.driftPerSec = alt.driftPerSec]
WithOffset(s, alt) == [s EXCEPT !.offsetSec = alt.offsetSec]

\* a request with master mi and slave si exchanged
Exchanged(req, mi, si) ==
  [req EXCEPT !.mMeters[mi] = req.sMeters[si], !.sMeters[si] = req.mMeters[mi]]

\* the index of the map of the pair mi, si in a result
MapIndex(mi, si, nS) == (mi - 1) * nS + si

(* The grid scenario: stations and time are drawn, then each computation runs. *)
GridInit ==
  /\ gMasters \in Picks(MasterCatalogue)
  /\ gSlaves \in Picks(SlaveCatalogue)
  /\ gReceivers \in {<< >>, ReceiverCatalogue}
  /\ gSimTime \in GridTimes
  /\ gCarry \in Carries
  /\ gpc = "input"
  /\ gBounds = << >> /\ gBoundsL = << >>
  /\ gWorker = << >> /\ gFallback = << >>
  /\ gAlt = << >> /\ gAltWorker = << >> /\ gAltFallback = << >>
  /\ gSwap = << >> /\ gSwapWorker = << >>
  /\ gLoranc = << >> /\ gSwapLoranc = << >>

\* no grid scenario: the state of the grid part in the specifications of the session
GridIdle ==
  /\ gMasters = << >> /\ gSlaves = << >> /\ gReceivers = << >>
  /\ gSimTime = 0 /\ gCarry = "both" /\ gpc = "none"
  /\ gBounds = << >> /\ gBoundsL = << >>
  /\ gWorker = << >> /\ gFallback = << >>
  /\ gAlt = << >> /\ gAltWorker = << >> /\ gAltFallback = << >>
  /\ gSwap = << >> /\ gSwapWorker = << >>
  /\ gLoranc = << >> /\ gSwapLoranc = << >>

\* the bounding box part of computeGrid, both components
ComputeBounds ==
  /\ gpc = "input"
  /\ gBounds' = GridBoundsEloran(gMasters \o gSlaves \o gReceivers)
  /\ gBoundsL' = GridBoundsLoranc(gMasters \o gSlaves \o gReceivers)
  /\ gpc' = "bounds"
  /\ UNCHANGED <<gMasters, gSlaves, gReceivers, gSimTime, gCarry, gWorker, gFallback,
                 gAlt, gAltWorker, gAltFallback, gSwap, gSwapWorker, gLoranc, gSwapLoranc>>
  /\ UNCHANGED outsideGrid

\* the worker path of Eloran's computeGrid
WorkerCompute ==
  /\ gpc = "bounds"
  /\ gWorker' = GridWorkerResult(WorkerRequest(gMasters, gSlaves, gBounds, gSimTime, gCarry))
  /\ gpc' = "worker"
  /\ UNCHANGED <<gMasters, gSlaves, gReceivers, gSimTime, gCarry, gBounds, gBoundsL, gFallback,
                 gAlt, gAltWorker, gAltFallback, gSwap, gSwapWorker, gLoranc, gSwapLoranc>>
  /\ UNCHANGED outsideGrid

\* the fallback path of Eloran's computeGrid
FallbackCompute ==
  /\ gpc = "worker"
  /\ gFallback' = FallbackResult(gMasters, gSlaves, gBounds, gSimTime)
  /\ gpc' = "fallback"
  /\ UNCHANGED <<gMasters, gSlaves, gReceivers, gSimTime, gCarry, gBounds, gBoundsL, gWorker,
                 gAlt, gAltWorker, gAltFallback, gSwap, gSwapWorker, gLoranc, gSwapLoranc>>
  /\ UNCHANGED outsideGrid

\* both paths again, the clocks, the offsets and the time replaced
SecondRun ==
  /\ gpc = "fallback"
  /\ \E alt \in AltClocks :
       LET ms == [k \in DOMAIN gMasters |-> WithClock(gMasters[k], alt)]
           ss == [k \in DOMAIN gSlaves |-> WithOffset(gSlaves[k], alt)]
       IN  /\ gAlt' = alt
           /\ gAltWorker' = GridWorkerResult(WorkerRequest(ms, ss, gBounds, alt.simTime, gCarry))
           /\ gAltFallback' = FallbackResult(ms, ss, gBounds, alt.simTime)
  /\ gpc' = "second"
  /\ UNCHANGED <<gMasters, gSlaves, gReceivers, gSimTime, gCarry, gBounds, gBoundsL, gWorker,
                 gFallback, gSwap, gSwapWorker, gLoranc, gSwapLoranc>>
  /\ UNCHANGED outsideGrid

\* the masters that have no asfMap of their own
PlainMasters == { mi \in DOMAIN gMasters : ~gMasters[mi].asfFunction }

\* the worker once more, a master without asfMap and a slave exchanged
ExchangedRun ==
  /\ gpc = "second"
  /\ \E mi \in DOMAIN gMasters, si \in DOMAIN gSlaves :
       /\ PlainMasters # {} => mi \in PlainMasters
       /\ gSwap' = [mi |-> mi, si |-> si, plain |-> mi \in PlainMasters]
       /\ gSwapWorker' = GridWorkerResult(
            Exchanged(WorkerRequest(gMasters, gSlaves, gBounds, gSimTime, gCarry), mi, si))
  /\ gpc' = "exchanged"
  /\ UNCHANGED <<gMasters, gSlaves, gReceivers, gSimTime, gCarry, gBounds, gBoundsL, gWorker,
                 gFallback, gAlt, gAltWorker, gAltFallback, gLoranc, gSwapLoranc>>
  /\ UNCHANGED outsideGrid

\* the Loranc worker on the same stations, as they are and exchanged
LorancCompute ==
  /\ gpc = "exchanged"
  /\ LET mM == [k \in DOMAIN gMasters |-> LorancMeters(gMasters[k])]
         sM == [k \in DOMAIN gSlaves |-> LorancMeters(gSlaves[k])]
     IN  /\ gLoranc' = LorancMaps(mM, sM, gBoundsL)
         /\ gSwapLoranc' = LorancMaps([mM EXCEPT ![gSwap.mi] = sM[gSwap.si]],
                                      [sM EXCEPT ![gSwap.si] = mM[gSwap.mi]], gBoundsL)
  /\ gpc' = "done"
  /\ UNCHANGED <<gMasters, gSlaves, gReceivers, gSimTime, gCarry, gBounds, gBoundsL, gWorker,
                 gFallback, gAlt, gAltWorker, gAltFallback, gSwap, gSwapWorker>>
  /\ UNCHANGED outsideGrid

NextGrid ==
  \/ ComputeBounds
  \/ WorkerCompute
  \/ FallbackCompute
  \/ SecondRun
  \/ ExchangedRun
  \/ LorancCompute

(***************************************************************************)
(* Session: the two simulator components and their grid workers.           *)
(***************************************************************************)

SessInit ==
  /\ impl \in {"Eloran", "Loranc"}
  /\ simTime = 0
  /\ nMasters = 0 /\ nSlaves = 0 /\ nReceivers = 0
  /\ asfFn = FALSE
  /\ hasSimResults = FALSE
  /\ gridStatus = "null"
  /\ sampling = {}
  /\ workerInbox = <<>>
  /\ mainInbox = <<>>
  /\ wpc = "idle"
  /\ wreq = 0
  /\ cancelled = FALSE
  /\ nextReq = 0
  /\ nCancels = 0
  /\ cancelDuring = {}
  /\ answered = {}
  /\ clockHigh = 0

workerVars == <<workerInbox, mainInbox, wpc, wreq, cancelled, nCancels, cancelDuring, answered>>
stationVars == <<nMasters, nSlaves, nReceivers, asfFn>>

\* a clock that wraps instead of counting on
TickedTimeWrapped(t) == IF t >= 1 THEN 0 ELSE t + 1

\* simTimeRef.current += 1
TickedTime(t) == t + 1

\* the setInterval callback of the sim clock effect
Tick ==
  /\ impl = "Eloran"
  /\ simTime < MaxSimTime
  /\ simTime' = TickedTime(simTime)
  /\ clockHigh' = Max(clockHigh, simTime')
  /\ UNCHANGED <<impl, stationVars, hasSimResults, gridStatus, sampling, nextReq, workerVars>>
  /\ UNCHANGED outsideSession

\* addMaster / addSlave / addReceiver: a map click in the matching mode
AddStation ==
  /\ \E role \in {"master", "slave", "receiver"} :
       /\ nMasters' = IF role = "master" THEN nMasters + 1 ELSE nMasters
       /\ nSlaves' = IF role = "slave" THEN nSlaves + 1 ELSE nSlaves
       /\ nReceivers' = IF role = "receiver" THEN nReceivers + 1 ELSE nReceivers
  /\ nMasters' <= MaxStations /\ nSlaves' <= MaxStations /\ nReceivers' <= MaxStations
  /\ UNCHANGED <<impl, simTime, clockHigh, asfFn, hasSimResults, gridStatus, sampling,
                 nextReq, workerVars>>
  /\ UNCHANGED outsideSession

\* the marker click handler in pan mode: the station is filtered out (Eloran only)
DeleteStation ==
  /\ impl = "Eloran"
  /\ \E role \in {"master", "slave", "receiver"} :
       /\ nMasters' = IF role = "master" THEN nMasters - 1 ELSE nMasters
       /\ nSlaves' = IF role = "slave" THEN nSlaves - 1 ELSE nSlaves
       /\ nReceivers' = IF role = "receiver" THEN nReceivers - 1 ELSE nReceivers
  /\ nMasters' >= 0 /\ nSlaves' >= 0 /\ nReceivers' >= 0
  /\ asfFn' = (asfFn /\ nMasters' > 0)
  /\ UNCHANGED <<impl, simTime, clockHigh, hasSimResults, gridStatus, sampling,
                 nextReq, workerVars>>
  /\ UNCHANGED outsideSession

\* applyAsfToMaster / clearAsfFromMaster: a master's asfMap becomes a function / null
EditAsf ==
  /\ impl = "Eloran"
  /\ nMasters > 0
  /\ asfFn' \in BOOLEAN
  /\ UNCHANGED <<impl, simTime, clockHigh, nMasters, nSlaves, nReceivers, hasSimResults,
                 gridStatus, sampling, nextReq, workerVars>>
  /\ UNCHANGED outsideSession

\* handleCsvImport: every valid row appends one station of its role
CsvImport ==
  /\ \E dm \in 0..1, ds \in 0..1, dr \in 0..1 :
       /\ nMasters' = nMasters + dm
       /\ nSlaves' = nSlaves + ds
       /\ nReceivers' = nReceivers + dr
  /\ nMasters' <= MaxStations /\ nSlaves' <= MaxStations /\ nReceivers' <= MaxStations
  /\ UNCHANGED <<impl, simTime, clockHigh, asfFn, hasSimResults, gridStatus, sampling,
                 nextReq, workerVars>>
  /\ UNCHANGED outsideSession

\* simulatePulsesAtReceivers
SimulatePulses ==
  /\ nMasters > 0 /\ nSlaves > 0 /\ nReceivers > 0
  /\ hasSimResults' = TRUE
  /\ UNCHANGED <<impl, simTime, clockHigh, stationVars, gridStatus, sampling, nextReq,
                 workerVars>>
  /\ UNCHANGED outsideSession

\* estimateReceiver / estimateReceiverLocationFromTDOA
EstimateReceiver ==
  /\ nReceivers > 0 /\ nMasters > 0
  /\ UNCHANGED <<impl, simTime, clockHigh, stationVars, hasSimResults, gridStatus, sampling,
                 nextReq, workerVars>>
  /\ UNCHANGED outsideSession

\* autoCalibrate
AutoCalibrate ==
  /\ impl = "Eloran"
  /\ hasSimResults
  /\ UNCHANGED <<impl, simTime, clockHigh, stationVars, hasSimResults, gridStatus, sampling,
                 nextReq, workerVars>>
  /\ UNCHANGED outsideSession

\* the value resetAll stores in simTimeRef.current
ResetTime(t) == 0

\* resetAll (Eloran) / resetSimulation (Loranc): the worker and the messages in
\* flight are left as they are
ResetAll ==
  /\ nMasters' = 0 /\ nSlaves' = 0 /\ nReceivers' = 0
  /\ asfFn' = FALSE
  /\ gridStatus' = "null"
  /\ hasSimResults' = FALSE
  /\ simTime' = IF impl = "Eloran" THEN ResetTime(simTime) ELSE simTime
  /\ clockHigh' = Max(clockHigh, simTime')
  /\ UNCHANGED <<impl, sampling, nextReq, workerVars>>
  /\ UNCHANGED outsideSession

ComputeMsg(r) == [cmd |-> "computeGrid", req |-> r]
CancelMsg == [cmd |-> "cancel", req |-> 0]

\* the status the synchronous fallback of Eloran's computeGrid ends with
FallbackStatus(ok) == IF ok THEN "ready" ELSE "error"

\* Eloran computeGrid up to its first suspension point.  workerOk = FALSE: creating
\* the worker or posting to it throws, and the catch falls through to the
\* synchronous computation, which sets 'ready', or 'error' when it throws itself.
ComputeGridEloran ==
  /\ impl = "Eloran"
  /\ nMasters > 0 /\ nSlaves > 0
  /\ nextReq < MaxRequests
  /\ nextReq' = nextReq + 1
  /\ \E workerOk \in BOOLEAN, ok \in BOOLEAN :
       IF workerOk /\ asfFn
       THEN /\ sampling' = sampling \cup {nextReq'}
            /\ gridStatus' = "computing"
            /\ UNCHANGED workerInbox
       ELSE IF workerOk
       THEN /\ workerInbox' = Append(workerInbox, ComputeMsg(nextReq'))
            /\ gridStatus' = "computing"
            /\ UNCHANGED sampling
       ELSE /\ gridStatus' = FallbackStatus(ok)
            /\ UNCHANGED <<sampling, workerInbox>>
  /\ UNCHANGED <<impl, simTime, clockHigh, stationVars, hasSimResults, mainInbox, wpc, wreq,
                 cancelled, nCancels, cancelDuring, answered>>
  /\ UNCHANGED outsideSession

\* Eloran computeGrid resumed after `await sampleAsfRastersForMasters` (which always
\* settles: a raster, or null after an error or the 10 s timeout)
SamplingDone ==
  /\ \E r \in sampling :
       /\ sampling' = sampling \ {r}
       /\ \E workerOk \in BOOLEAN, ok \in BOOLEAN :
            IF workerOk
            THEN /\ workerInbox' = Append(workerInbox, ComputeMsg(r))
                 /\ UNCHANGED gridStatus
            ELSE /\ gridStatus' = FallbackStatus(ok)
                 /\ UNCHANGED workerInbox
  /\ UNCHANGED <<impl, simTime, clockHigh, stationVars, hasSimResults, nextReq, mainInbox,
                 wpc, wreq, cancelled, nCancels, cancelDuring, answered>>
  /\ UNCHANGED outsideSession

\* Loranc computeGrid
ComputeGridLoranc ==
  /\ impl = "Loranc"
  /\ nMasters > 0 /\ nSlaves > 0
  /\ nextReq < MaxRequests
  /\ nextReq' = nextReq + 1
  /\ gridStatus' = "computing"
  /\ workerInbox' = Append(workerInbox, ComputeMsg(nextReq'))
  /\ UNCHANGED <<impl, simTime, clockHigh, stationVars, hasSimResults, sampling, mainInbox,
                 wpc, wreq, cancelled, nCancels, cancelDuring, answered>>
  /\ UNCHANGED outsideSession

\* a {cmd: 'cancel'} message is answered to the grid worker
SendCancel ==
  /\ nCancels < MaxCancels
  /\ nCancels' = nCancels + 1
  /\ workerInbox' = Append(workerInbox, CancelMsg)
  /\ cancelDuring' = IF wpc # "idle" THEN cancelDuring \cup {wreq} ELSE cancelDuring
  /\ UNCHANGED <<impl, simTime, clockHigh, stationVars, hasSimResults, gridStatus, sampling,
                 nextReq, mainInbox, wpc, wreq, cancelled, answered>>
  /\ UNCHANGED outsideSession

mainVars == <<impl, simTime, clockHigh, stationVars, hasSimResults, gridStatus, sampling,
              nextReq, nCancels, cancelDuring>>

\* self.postMessage from the worker, for the request it is processing
PostToMain(c) ==
  /\ mainInbox' = Append(mainInbox, [cmd |-> c, req |-> wreq])
  /\ answered' = IF wreq \in cancelDuring
                 THEN answered \cup {[cmd |-> c, req |-> wreq]}
                 ELSE answered

\* The worker's event loop takes the next message.  A handler runs to completion, so
\* this happens only when no handler is running.
\*   Loranc worker: 'cancel' sets the flag; 'computeGrid' clears it and starts.
\*   gridWorker.js: anything but 'computeGrid' is dropped.
WorkerDispatch ==
  /\ wpc = "idle"
  /\ workerInbox # <<>>
  /\ workerInbox' = Tail(workerInbox)
  /\ LET msg == Head(workerInbox) IN
       IF msg.cmd = "cancel"
       THEN /\ cancelled' = IF impl = "Loranc" THEN TRUE ELSE cancelled
            /\ UNCHANGED <<wpc, wreq>>
       ELSE /\ cancelled' = FALSE
            /\ wpc' = "tdoa"
            /\ wreq' = msg.req
  /\ UNCHANGED <<mainVars, mainInbox, answered>>
  /\ UNCHANGED outsideSession

\* The worker reads its `cancelled` flag (Loranc worker only)
CancelSeen == impl = "Loranc" /\ cancelled

\* The raster loops.  ok = FALSE: the handler throws (for instance the allocation of
\* a raster fails).  The Loranc worker catches and posts 'error'; gridWorker.js has no
\* handler, so nothing is answered.
WorkerTdoa ==
  /\ wpc = "tdoa"
  /\ \E ok \in BOOLEAN :
       IF impl = "Loranc"
       THEN IF ~ok THEN PostToMain("error") /\ wpc' = "idle"
            ELSE IF CancelSeen THEN PostToMain("cancelled") /\ wpc' = "idle"
            ELSE wpc' = "contours" /\ UNCHANGED <<mainInbox, answered>>
       ELSE IF ~ok THEN wpc' = "idle" /\ UNCHANGED <<mainInbox, answered>>
            ELSE PostToMain("result") /\ wpc' = "idle"
  /\ wreq' = IF wpc' = "idle" THEN 0 ELSE wreq
  /\ UNCHANGED <<mainVars, workerInbox, cancelled>>
  /\ UNCHANGED outsideSession

\* The contour loops of the Loranc worker and its final post
WorkerContours ==
  /\ wpc = "contours"
  /\ \E ok \in BOOLEAN :
       IF ~ok THEN PostToMain("error")
       ELSE IF CancelSeen THEN PostToMain("cancelled")
       ELSE PostToMain("gridResult")
  /\ wpc' = "idle"
  /\ wreq' = 0
  /\ UNCHANGED <<mainVars, workerInbox, cancelled>>
  /\ UNCHANGED outsideSession

\* the command whose message makes the component set a finished grid status
ResultCmd == IF impl = "Eloran" THEN "result" ELSE "gridResult"

\* The component's handler of worker messages.  Only a result is handled; the Loranc
\* handler stores an object without a status field, which the component reads as
\* 'ready' (gridStatus.status || 'ready').
MainReceive ==
  /\ mainInbox # <<>>
  /\ mainInbox' = Tail(mainInbox)
  /\ gridStatus' = IF Head(mainInbox).cmd = ResultCmd THEN "ready" ELSE gridStatus
  /\ UNCHANGED <<impl, simTime, clockHigh, stationVars, hasSimResults, sampling, nextReq,
                 workerInbox, wpc, wreq, cancelled, nCancels, cancelDuring, answered>>
  /\ UNCHANGED outsideSession

(***************************************************************************)
(* solvePositionFromTDOA of Eloran.jsx and Loranc.jsx.                      *)
(*                                                                         *)
(* The entries of the Jacobian are differences of unit vectors divided by  *)
(* C.c.  The model holds a unit-vector component as an integer number of   *)
(* 1/SolverScale, so an entry of J is held in units of 1/(SolverScale C.c),*)
(* an entry of JTJ in units of 1/(SolverScale C.c)^2 and det in units of   *)
(* 1/(SolverScale C.c)^4.                                                  *)
(***************************************************************************)
MaxSolverSlaves == 2
SolverScale == 50
C == 299792458
\* a loop of one more pass
maxIterOneMore == 30 + 1
maxIter == 30

\* a * b and a / b, with NaN operands and 0 / 0 giving NaN
Mul(a, b) == IF IsNum(a) /\ IsNum(b) THEN a * b ELSE NaN
Div(a, b) == IF IsNum(a) /\ IsNum(b) /\ b # 0 THEN a \div b ELSE NaN

RECURSIVE SumSeq(_)
SumSeq(vs) == IF vs = << >> THEN 0 ELSE Add(Head(vs), SumSeq(Tail(vs)))

\* 1e-3 in the unit of an entry of J: det is compared with (1e-3)^4
DetScale == (C \div 1000) * SolverScale
\* |det| / 1e-12, rounded down to (1e-3)^4's multiples
DetRatio(d) == ((Abs(d) \div DetScale) \div DetScale) \div DetScale
\* Math.abs(det) < 1e-12, false for NaN
DetBelow(d) == IsNum(d) /\ DetRatio(d) < DetScale
\* Math.abs(detF) > 1e-12, false for NaN
DetAbove(d) == IsNum(d) /\ DetRatio(d) >= DetScale

\* latLngToXY and its inverse at the end of the solver (cos(refLat) is 1 in the area)
LatLngToXY(p) == [x |-> Arc(p.lng), y |-> Arc(p.lat)]
ArcInv(v) == IF IsNum(v) THEN (v * 10000) \div 11120 ELSE NaN

\* per pair: the row [ddx, ddy] of J and the residual ri at the estimate x0, y0
SolverRow(p, x0, y0) ==
  LET mxy == LatLngToXY(p.master)
      sxy == LatLngToXY(p.slave)
      dM == Hypot(Sub(x0, mxy.x), Sub(y0, mxy.y))
      dS == Hypot(Sub(x0, sxy.x), Sub(y0, sxy.y))
      ux(d, a, b) == Div(Mul(Sub(a, b), SolverScale), d)
  IN  [ddx |-> Sub(ux(dS, x0, sxy.x), ux(dM, x0, mxy.x)),
       ddy |-> Sub(ux(dS, y0, sxy.y), ux(dM, y0, mxy.y)),
       ri |-> Sub(p.tdoaSec, Sub(dS, dM))]

\* JTJ and JTr summed over the rows
NormalEquations(rows) ==
  [a11 |-> SumSeq([i \in DOMAIN rows |-> Mul(rows[i].ddx, rows[i].ddx)]),
   a12 |-> SumSeq([i \in DOMAIN rows |-> Mul(rows[i].ddx, rows[i].ddy)]),
   a22 |-> SumSeq([i \in DOMAIN rows |-> Mul(rows[i].ddy, rows[i].ddy)]),
   b1 |-> SumSeq([i \in DOMAIN rows |-> Mul(rows[i].ddx, rows[i].ri)]),
   b2 |-> SumSeq([i \in DOMAIN rows |-> Mul(rows[i].ddy, rows[i].ri)])]

Det(n) == Sub(Mul(n.a11, n.a22), Mul(n.a12, n.a12))

\* dx, dy = inv(JTJ) JTr, in metres
StepX(n) == Div(Mul(SolverScale, Sub(Mul(n.a22, n.b1), Mul(n.a12, n.b2))), Det(n))
StepY(n) == Div(Mul(SolverScale, Sub(Mul(n.a11, n.b2), Mul(n.a12, n.b1))), Det(n))

\* Math.hypot(dx, dy) < 1e-6, false for NaN: of the steps the model can express, the zero step
StepBelow(dx, dy) == IsNum(dx) /\ IsNum(dy) /\ Hypot(dx, dy) < 1

ZeroJTJ == [a11 |-> 0, a12 |-> 0, a22 |-> 0]

\* hplMeters of Eloran's solver from JTJ_final and r_final
HplMeters(jtj, res) ==
  LET m == Len(res)
      sigma2 == IF m > 2
                THEN Div(SumSeq([i \in DOMAIN res |-> Mul(res[i], res[i])]), Max(1, m - 2))
                ELSE 0
      detF == Det(jtj)
      k == SolverScale * SolverScale
      cov == IF DetAbove(detF)
             THEN [c11 |-> Div(Mul(Mul(sigma2, jtj.a22), k), detF),
                   c12 |-> Div(Mul(Mul(sigma2, Neg(jtj.a12)), k), detF),
                   c22 |-> Div(Mul(Mul(sigma2, jtj.a11), k), detF)]
             ELSE [c11 |-> 0, c12 |-> 0, c22 |-> 0]
      trace == cov.c11 + cov.c22
      detC == cov.c11 * cov.c22 - cov.c12 * cov.c12
      tm == ISqrt(Max(0, ((trace * trace) \div 4) - detC))
      lambda1 == Max(0, (trace \div 2) + tm)
  IN  3 * ISqrt(Max(0, lambda1))

\* the positions of the solver scenarios
SolverMasters == { [lat |-> 0, lng |-> 0] }
SolverSlaves == << [lat |-> 0, lng |-> 6000], [lat |-> 6000, lng |-> 0], [lat |-> 4000, lng |-> 4000] >>
SolverTruths == { [lat |-> 3000, lng |-> 3000], [lat |-> 1000, lng |-> 2000], [lat |-> 0, lng |-> 0] }
GuessOffsets == { [lat |-> 0, lng |-> 0], [lat |-> 1000, lng |-> 1000] }

\* noise-free observation: tdoaSec = arrival of the slave - arrival of the master at truth
NoiseFreeTdoa(master, slave, truth) == Sub(Haversine(slave, truth), Haversine(master, truth))

SolverInit ==
  /\ sTruth \in SolverTruths
  /\ \E master \in SolverMasters :
       \E slaves \in { q \in PicksUpTo(SolverSlaves, MaxSolverSlaves) : Len(q) >= 2 } :
         sPairs = [k \in DOMAIN slaves |->
                     [master |-> master, slave |-> slaves[k],
                      tdoaSec |-> NoiseFreeTdoa(master, slaves[k], sTruth)]]
  /\ \E off \in GuessOffsets :
       sGuess = [lat |-> sTruth.lat + off.lat, lng |-> sTruth.lng + off.lng]
  /\ sx0 = 0 /\ sy0 = 0 /\ sIter = 0 /\ spc = "call"
  /\ sJTJ = ZeroJTJ /\ sRes = << >>
  /\ sOut = [lat |-> 0, lng |-> 0, hplMeters |-> 0]

\* no solver call: the state of the solver part in the other specifications
SolverIdle ==
  /\ sPairs = << >> /\ sTruth = [lat |-> 0, lng |-> 0] /\ sGuess = [lat |-> 0, lng |-> 0]
  /\ sx0 = 0 /\ sy0 = 0 /\ sIter = 0 /\ spc = "none"
  /\ sJTJ = ZeroJTJ /\ sRes = << >>
  /\ sOut = [lat |-> 0, lng |-> 0, hplMeters |-> 0]

\* the solver up to its loop: the initial guess in planar coordinates
SolverEnter ==
  /\ spc = "call"
  /\ sx0' = LatLngToXY(sGuess).x
  /\ sy0' = LatLngToXY(sGuess).y
  /\ sIter' = 0
  /\ sJTJ' = ZeroJTJ /\ sRes' = << >>
  /\ spc' = "loop"
  /\ UNCHANGED <<sPairs, sTruth, sGuess, sOut>>
  /\ UNCHANGED outsideSolver

\* one pass of the loop, or its end when iter has reached maxIter
SolverIterate ==
  /\ spc = "loop"
  /\ IF sIter >= maxIter
     THEN spc' = "return" /\ UNCHANGED <<sx0, sy0, sIter, sJTJ, sRes>>
     ELSE \E rows \in { [i \in DOMAIN sPairs |-> SolverRow(sPairs[i], sx0, sy0)] } :
          \E n \in { NormalEquations(rows) } :
          LET dx == StepX(n)
              dy == StepY(n)
          IN  IF DetBelow(Det(n))
              THEN spc' = "return" /\ UNCHANGED <<sx0, sy0, sIter, sJTJ, sRes>>
              ELSE /\ sx0' = Add(sx0, dx)
                   /\ sy0' = Add(sy0, dy)
                   /\ IF StepBelow(dx, dy)
                      THEN spc' = "return" /\ UNCHANGED <<sIter, sJTJ, sRes>>
                      ELSE /\ sJTJ' = [a11 |-> n.a11, a12 |-> n.a12, a22 |-> n.a22]
                           /\ sRes' = [i \in DOMAIN rows |-> rows[i].ri]
                           /\ sIter' = sIter + 1
                           /\ spc' = "loop"
  /\ UNCHANGED <<sPairs, sTruth, sGuess, sOut>>
  /\ UNCHANGED outsideSolver

\* the end of the solver: the estimate in degrees, and in Eloran the protection level
SolverReturn ==
  /\ spc = "return"
  /\ sOut' = [lat |-> ArcInv(sy0), lng |-> ArcInv(sx0),
              hplMeters |-> IF impl = "Eloran" THEN HplMeters(sJTJ, sRes) ELSE Undef]
  /\ spc' = "done"
  /\ UNCHANGED <<sPairs, sTruth, sGuess, sx0, sy0, sIter, sJTJ, sRes>>
  /\ UNCHANGED outsideSolver

NextSolver ==
  \/ SolverEnter
  \/ SolverIterate
  \/ SolverReturn

(***************************************************************************)
(* simulatePulsesAtReceivers and autoCalibrate of Eloran.jsx.  The waveform *)
(* of a result and the DDS broadcast that ends the simulation are not part  *)
(* of the calibration's input and are left out.                             *)
(***************************************************************************)
MaxCalStations == 2
MaxCalTime == 2

\* seconds and milliseconds in light-metres
SecToLight(t) == t * C
MsToLight(ms) == (ms \div 1000) * C + (ms % 1000) * (C \div 1000)
\* totalDuration, 0.01 s
TotalDuration == C \div 100
\* the detection jitter gaussianNoise(detectJitterMs) / 1000 may draw; 0 when detectJitterMs is 0
JitterDraws(jitterMs) == IF jitterMs = 0 THEN {0} ELSE {-300, 300}
\* the values the skywave delay input is set to, ms
SkyDelays == {1, 12}
\* (skyDelayMs || 0) / 1000
SkyDelay == MsToLight(cSkyDelayMs)

\* M1 as addMaster places it (gri: 8330), M2 placed and then edited in the dialog (griMs)
CalMasterCatalogue ==
  << [label |-> "M1", lat |-> 0, lng |-> 0, biasSec |-> 0, driftPerSec |-> 0,
      gri |-> 8330, griMs |-> Undef, phaseSec |-> Undef, offsetSec |-> Undef,
      diffEnabled |-> TRUE, avgMeters |-> 10, asfFunction |-> FALSE],
     [label |-> "M2", lat |-> 0, lng |-> 6000, biasSec |-> 7, driftPerSec |-> 3,
      gri |-> 8330, griMs |-> 2000, phaseSec |-> 0, offsetSec |-> Undef,
      diffEnabled |-> TRUE, avgMeters |-> 0, asfFunction |-> TRUE] >>
CalSlaveCatalogue ==
  << [label |-> "S1", lat |-> 5000, lng |-> 3000, biasSec |-> Undef, driftPerSec |-> Undef,
      gri |-> Undef, griMs |-> Undef, phaseSec |-> Undef, offsetSec |-> 11,
      diffEnabled |-> FALSE, avgMeters |-> Undef, asfFunction |-> FALSE] >>
CalReceiverCatalogue ==
  << [label |-> "R1", lat |-> 3000, lng |-> 3000],
     [label |-> "R2", lat |-> 1000, lng |-> 5000] >>

\* a prediction that takes the differential correction off, as the arrival does
ComputeArrivalSecDiffApplied(st, lat, lng, t) == ComputeArrivalSec(st, lat, lng, t)

\* computeArrivalSecNoDiff: the predicted arrival, the differential correction left out
ComputeArrivalSecNoDiff(st, lat, lng, t) ==
  LET dist == Haversine([lat |-> st.lat, lng |-> st.lng], [lat |-> lat, lng |-> lng])
      asfMeters == IF st.asfFunction THEN OrZero(AsfValue(lat, lng)) ELSE 0
  IN  Add(Add(Add(dist, OrZero(st.offsetSec)), OrZero(SimulateClockTick(st, t))), asfMeters)

\* griSec in milliseconds: m.griMs || 1000
GriMs(st) == IF OrZero(st.griMs) = 0 THEN 1000 ELSE st.griMs
\* baseK = Math.floor(simTime / griSec)
BaseK(st, t) == (t * 1000) \div GriMs(st)
\* t_emit = (baseK + k) * griSec + phase
EmitTime(st, t, k) == MsToLight((BaseK(st, t) + k) * GriMs(st)) + OrZero(st.phaseSec)

\* arrivalSec of the emission k of a station at a receiver
PulseArrival(st, r, t, k) ==
  LET prop == Haversine([lat |-> st.lat, lng |-> st.lng], [lat |-> r.lat, lng |-> r.lng])
      asfMeters == IF st.asfFunction THEN OrZero(AsfValue(r.lat, r.lng)) ELSE 0
  IN  EmitTime(st, t, k) + prop + OrZero(SimulateClockTick(st, t)) + OrZero(st.offsetSec)
        + (asfMeters - DiffCorrMeters(st))

\* arrivalWithJitter >= simTime && arrivalWithJitter <= simTime + totalDuration
InWindow(a, t) == a >= SecToLight(t) /\ a <= SecToLight(t) + TotalDuration

\* the arrivals one emission of a station adds to a receiver's list
EmissionArrivals(st, type, r, t, k, jitter, sky) ==
  LET a == PulseArrival(st, r, t, k) + jitter IN
  IF ~InWindow(a, t) THEN << >>
  ELSE << [station |-> st.label, type |-> type, arrivalSec |-> a] >>
         \o (IF sky /\ type = "master"
             THEN << [station |-> st.label, type |-> "master-sky", arrivalSec |-> a + SkyDelay] >>
             ELSE << >>)

\* the arrivals of a station at a receiver: k = -1, 0, 1
StationArrivals(st, type, r, t, jitter, sky) ==
  EmissionArrivals(st, type, r, t, -1, jitter, sky)
    \o EmissionArrivals(st, type, r, t, 0, jitter, sky)
    \o EmissionArrivals(st, type, r, t, 1, jitter, sky)

\* arrivals.sort((a,b) => a.arrivalSec - b.arrivalSec): a stable sort
RECURSIVE InsertArrival(_, _)
InsertArrival(sorted, a) ==
  IF sorted = << >> THEN << a >>
  ELSE IF Head(sorted).arrivalSec <= a.arrivalSec
       THEN << Head(sorted) >> \o InsertArrival(Tail(sorted), a)
       ELSE << a >> \o sorted
RECURSIVE SortArrivals(_)
SortArrivals(as) ==
  IF as = << >> THEN << >>
  ELSE InsertArrival(SortArrivals(SubSeq(as, 1, Len(as) - 1)), as[Len(as)])

\* the result of one receiver; jit gives the jitter drawn for each station
ReceiverResult(r, ms, ss, t, jit, sky) ==
  LET fromMasters == Flatten([i \in DOMAIN ms |->
                                StationArrivals(ms[i], "master", r, t, jit[ms[i].label], sky)])
      fromSlaves == Flatten([i \in DOMAIN ss |->
                               StationArrivals(ss[i], "slave", r, t, jit[ss[i].label], sky)])
  IN  [receiver |-> r.label, arrivals |-> SortArrivals(fromMasters \o fromSlaves)]

Labels(sts) == { sts[i].label : i \in DOMAIN sts }

\* the corrections autoCalibrate collects for the master m: -(observed - predicted) * C.c
\* for each of its arrivals that is not a skywave
Corrections(m, results, rs, t) ==
  Flatten([ri \in DOMAIN results |->
    IF \E k \in DOMAIN rs : rs[k].label = results[ri].receiver
    THEN LET rx == rs[CHOOSE k \in DOMAIN rs :
                        /\ rs[k].label = results[ri].receiver
                        /\ \A j \in DOMAIN rs : rs[j].label = results[ri].receiver => k <= j]
             own == SelectSeq(results[ri].arrivals,
                              LAMBDA a : a.station = m.label /\ a.type # "master-sky")
         IN  [i \in DOMAIN own |->
                Neg(Sub(own[i].arrivalSec, ComputeArrivalSecNoDiff(m, rx.lat, rx.lng, t)))]
    ELSE << >>])

\* the master with the average taken of any list of corrections, the empty one too
CalibratedUnguarded(m, results, rs, t) ==
  LET arr == Corrections(m, results, rs, t) IN
  [m EXCEPT !.diffEnabled = TRUE, !.avgMeters = Div(SumSeq(arr), Len(arr))]

\* the master after autoCalibrate: the average of its corrections, if it has any
Calibrated(m, results, rs, t) ==
  LET arr == Corrections(m, results, rs, t) IN
  IF Len(arr) = 0 THEN m
  ELSE [m EXCEPT !.diffEnabled = TRUE, !.avgMeters = Div(SumSeq(arr), Len(arr))]

CalInit ==
  /\ cMasters \in PicksUpTo(CalMasterCatalogue, MaxCalStations)
  /\ cSlaves = CalSlaveCatalogue
  /\ cReceivers \in PicksUpTo(CalReceiverCatalogue, MaxCalStations)
  /\ cSimTime \in 0..MaxCalTime
  /\ cJitterMs \in {0, 1}
  /\ cSky \in BOOLEAN
  /\ cSkyDelayMs \in SkyDelays
  /\ cpc = "setup"
  /\ cResults = << >>
  /\ cSimulatedAt = 0
  /\ cInjected = << >>

\* no calibration scenario: the state of this part in the other specifications
CalIdle ==
  /\ cMasters = << >> /\ cSlaves = << >> /\ cReceivers = << >>
  /\ cSimTime = 0 /\ cJitterMs = 0 /\ cSky = FALSE /\ cSkyDelayMs = 1 /\ cpc = "none"
  /\ cResults = << >> /\ cSimulatedAt = 0 /\ cInjected = << >>

\* simulatePulsesAtReceivers (a scenario ends with its calibration pass)
SimulatePulsesAtReceivers ==
  /\ cpc \in {"setup", "simulated"}
  /\ Len(cMasters) > 0 /\ Len(cSlaves) > 0 /\ Len(cReceivers) > 0
  /\ \E jit \in [Labels(cMasters) \cup Labels(cSlaves) -> JitterDraws(cJitterMs)] :
       cResults' = [ri \in DOMAIN cReceivers |->
                      ReceiverResult(cReceivers[ri], cMasters, cSlaves, cSimTime, jit, cSky)]
  /\ cSimulatedAt' = cSimTime
  /\ cInjected' = [i \in DOMAIN cMasters |-> DiffCorrMeters(cMasters[i])]
  /\ cpc' = "simulated"
  /\ UNCHANGED <<cMasters, cSlaves, cReceivers, cSimTime, cJitterMs, cSky, cSkyDelayMs>>
  /\ UNCHANGED outsideCal

\* the sim clock effect between simulation and calibration
CalTick ==
  /\ cpc = "simulated"
  /\ cSimTime < MaxCalTime
  /\ cSimTime' = TickedTime(cSimTime)
  /\ UNCHANGED <<cMasters, cSlaves, cReceivers, cJitterMs, cSky, cSkyDelayMs, cpc, cResults,
                 cSimulatedAt, cInjected>>
  /\ UNCHANGED outsideCal

\* autoCalibrate (a scenario takes it once, or twice in a row)
AutoCalibratePass ==
  /\ cpc \in {"simulated", "calibrated"}
  /\ Len(cResults) > 0
  /\ cMasters' = [i \in DOMAIN cMasters |->
                    Calibrated(cMasters[i], cResults, cReceivers, cSimTime)]
  /\ cpc' = IF cpc = "simulated" THEN "calibrated" ELSE "recalibrated"
  /\ UNCHANGED <<cSlaves, cReceivers, cSimTime, cJitterMs, cSky, cSkyDelayMs, cResults,
                 cSimulatedAt, cInjected>>
  /\ UNCHANGED outsideCal

NextCal ==
  \/ SimulatePulsesAtReceivers
  \/ CalTick
  \/ AutoCalibratePass

(***************************************************************************)
(* estimateReceiver of Eloran.jsx and the log of DDS and integrity events.  *)
(* The protection level, the position error and the threshold are held in   *)
(* decimetres.  The marker, the toasts and the rolling statistics are left  *)
(* out.                                                                    *)
(***************************************************************************)
MaxEstimates == 1
\* prev.slice(-400)
LogKeep == 400

\* a slice that keeps every entry
SliceLogKeepAll(log) == log

\* prev.slice(-400): the last 400 entries
SliceLog(log) == IF Len(log) <= LogKeep THEN log ELSE SubSeq(log, Len(log) - LogKeep + 1, Len(log))

EstMasterCatalogue ==
  << [label |-> "M1", lat |-> 0, lng |-> 0, biasSec |-> 0, driftPerSec |-> 0, offsetSec |-> Undef,
      diffEnabled |-> TRUE, avgMeters |-> 0, asfFunction |-> FALSE, ddsEnabled |-> TRUE],
     [label |-> "M2", lat |-> 3000, lng |-> 3000, biasSec |-> 7, driftPerSec |-> 3, offsetSec |-> Undef,
      diffEnabled |-> TRUE, avgMeters |-> 5, asfFunction |-> TRUE, ddsEnabled |-> FALSE] >>
EstSlaveCatalogue ==
  << [label |-> "S1", lat |-> 0, lng |-> 6000, biasSec |-> Undef, driftPerSec |-> Undef,
      offsetSec |-> 0, diffEnabled |-> FALSE, avgMeters |-> Undef, asfFunction |-> FALSE],
     [label |-> "S2", lat |-> 6000, lng |-> 0, biasSec |-> Undef, driftPerSec |-> Undef,
      offsetSec |-> 11, diffEnabled |-> FALSE, avgMeters |-> Undef, asfFunction |-> FALSE],
     [label |-> "S3", lat |-> 4000, lng |-> 4000, biasSec |-> Undef, driftPerSec |-> Undef,
      offsetSec |-> 0, diffEnabled |-> FALSE, avgMeters |-> Undef, asfFunction |-> FALSE] >>
NoFix == [lat |-> Undef, lng |-> Undef, err |-> Undef, hpl |-> Undef]
EstReceiverCatalogue ==
  << [label |-> "R1", lat |-> 3000, lng |-> 3000, fuseMode |-> "eLoran", lastFix |-> NoFix],
     [label |-> "R2", lat |-> 1000, lng |-> 2000, fuseMode |-> "eLoran", lastFix |-> NoFix] >>
\* the station sets estimates are taken in; R1 stands on M2
EstScenarios ==
  LET M == EstMasterCatalogue
      S == EstSlaveCatalogue
      R == EstReceiverCatalogue
  IN  { [masters |-> << M[1] >>, slaves |-> << S[1], S[2] >>, receivers |-> << R[2] >>],
        [masters |-> << M[1] >>, slaves |-> S, receivers |-> << R[1], R[2] >>],
        [masters |-> << M[2], M[1] >>, slaves |-> << S[2] >>, receivers |-> << R[1] >>] }
FuseModes == {"eLoran", "GNSS", "fusion"}
EstimatorModes == {"controlled", "random", "none"}
\* the values the threshold input is set to, decimetres
EstThresholds == {-10, 50, 500}
\* gaussianNoise(estNoiseStdMeters), metres: the draws of the controlled and of the random mode
EstNoiseDraws(mode) ==
  IF mode = "controlled" THEN {-60, 60} ELSE IF mode = "random" THEN {-90, 90} ELSE {0}

\* one pass of the Gauss-Newton loop of solvePositionFromTDOA at the estimate e; stop says
\* that the pass ended in a break
SolverPass(pairs, e) ==
  LET rows == [i \in DOMAIN pairs |-> SolverRow(pairs[i], e.x0, e.y0)]
      n == NormalEquations(rows)
      dx == StepX(n)
      dy == StepY(n)
  IN  IF DetBelow(Det(n)) THEN [e EXCEPT !.stop = TRUE]
      ELSE IF StepBelow(dx, dy)
           THEN [x0 |-> Add(e.x0, dx), y0 |-> Add(e.y0, dy), jtj |-> e.jtj, res |-> e.res,
                 stop |-> TRUE]
           ELSE [x0 |-> Add(e.x0, dx), y0 |-> Add(e.y0, dy),
                 jtj |-> [a11 |-> n.a11, a12 |-> n.a12, a22 |-> n.a22],
                 res |-> [i \in DOMAIN rows |-> rows[i].ri], stop |-> FALSE]

\* the loop from the pass iter on
RECURSIVE SolveLoop(_, _, _)
SolveLoop(pairs, e, iter) ==
  IF iter >= maxIter THEN e
  ELSE LET next == SolverPass(pairs, e) IN
       IF next.stop THEN next ELSE SolveLoop(pairs, next, iter + 1)

\* cov of solvePositionFromTDOA: sigma2 * inv(JTJ_final), or zero when detF fails its test
Covariance(jtj, res) ==
  LET m == Len(res)
      sigma2 == IF m > 2
                THEN Div(SumSeq([i \in DOMAIN res |-> Mul(res[i], res[i])]), Max(1, m - 2))
                ELSE 0
      detF == Det(jtj)
      k == SolverScale * SolverScale
  IN  IF DetAbove(detF)
      THEN [c11 |-> Div(Mul(Mul(sigma2, jtj.a22), k), detF),
            c12 |-> Div(Mul(Mul(sigma2, Neg(jtj.a12)), k), detF),
            c22 |-> Div(Mul(Mul(sigma2, jtj.a11), k), detF)]
      ELSE [c11 |-> 0, c12 |-> 0, c22 |-> 0]

\* solvePositionFromTDOA of Eloran.jsx: lat, lng and hplMeters
SolvePositionFromTDOA(pairs, guess) ==
  LET g == LatLngToXY(guess)
      e == SolveLoop(pairs, [x0 |-> g.x, y0 |-> g.y, jtj |-> ZeroJTJ, res |-> << >>, stop |-> FALSE], 0)
  IN  [lat |-> ArcInv(e.y0), lng |-> ArcInv(e.x0),
       covariance |-> Covariance(e.jtj, e.res), hplMeters |-> HplMeters(e.jtj, e.res)]

\* pairs of estimateReceiver: the reference master with every slave, observed at the receiver
EstimatePairs(ms, ss, rx, t) ==
  [si \in DOMAIN ss |->
     [master |-> ms[1], slave |-> ss[si],
      tdoaSec |-> Sub(ComputeArrivalSec(ss[si], rx.lat, rx.lng, t),
                      ComputeArrivalSec(ms[1], rx.lat, rx.lng, t))]]

\* est * wE + gnssFix * wG with wE = 0.6, wG = 0.4 on one coordinate
FuseCoordinate(e, g) == Div(Add(Mul(e, 6), Mul(g, 4)), 10)

\* estHpl recomputed from the fused covariance, decimetres; gnssCov is 64 on the diagonal
FusedHpl(cov) ==
  LET c11 == Add(Mul(36, cov.c11), 16 * 64)   \* wE*wE*estCov + wG*wG*gnssCov, in 0.01 m^2
      c12 == Mul(36, cov.c12)
      c22 == Add(Mul(36, cov.c22), 16 * 64)
      trace == c11 + c22
      det == c11 * c22 - c12 * c12
      temp == ISqrt(Max(0, ((trace * trace) \div 4) - det))
      lambda1 == Max(0, (trace \div 2) + temp)
  IN  3 * ISqrt(lambda1)

\* estHpl: typeof estObj.hplMeters === 'number' ? estObj.hplMeters : null (Undef), decimetres
EstHpl(estObj, rx) ==
  IF rx.fuseMode = "fusion" THEN FusedHpl(estObj.covariance)
  ELSE IF estObj.hplMeters = Undef THEN Undef
  ELSE Mul(estObj.hplMeters, 10)

\* fused: the estimate, fused with the GNSS fix when asked, with the estimator noise added
FusedFix(estObj, rx, nLat, nLng) ==
  LET f == IF rx.fuseMode = "fusion"
           THEN [lat |-> FuseCoordinate(estObj.lat, rx.lat), lng |-> FuseCoordinate(estObj.lng, rx.lng)]
           ELSE [lat |-> estObj.lat, lng |-> estObj.lng]
  IN  [lat |-> Add(f.lat, ProjInv(nLat)), lng |-> Add(f.lng, ProjInv(nLng))]

\* errorMeters = haversine(rx, fused), decimetres
ErrorMeters(rx, fused) == Mul(Haversine(rx, fused), 10)

\* hplCheck, with the raw error in every case
HplCheckErrorOnly(estHpl, errorMeters) == errorMeters

\* hplCheck = (estHpl !== null && typeof estHpl === 'number') ? estHpl : errorMeters
HplCheck(estHpl, errorMeters) == IF estHpl # Undef THEN estHpl ELSE errorMeters

\* hplCheck > integrityThresholdMeters, false for NaN
Exceeds(v, thr) == IsNum(v) /\ v > thr

\* logEvents after broadcastDDS has run more than 400 times with one master sending
FullLog == [i \in 1..(LogKeep + 1) |-> [type |-> "DDS", station |-> "M1", receiver |-> ""]]

EstInit ==
  /\ \E sc \in EstScenarios :
       eMasters = sc.masters /\ eSlaves = sc.slaves /\ eReceivers = sc.receivers
  /\ eSimTime = 1
  /\ eMode = "controlled"
  /\ eChecks = TRUE
  /\ eThreshold = 500
  /\ eLog \in { << >>, FullLog }
  /\ eCalls = 0
  /\ eCall = [made |-> FALSE, receiver |-> "", estHpl |-> Undef, errorMeters |-> Undef,
              checks |-> FALSE, threshold |-> 0]

\* no estimation scenario: the state of this part in the other specifications
EstIdle ==
  /\ eMasters = << >> /\ eSlaves = << >> /\ eReceivers = << >>
  /\ eSimTime = 0 /\ eMode = "controlled" /\ eChecks = TRUE /\ eThreshold = 500
  /\ eLog = << >> /\ eCalls = 0
  /\ eCall = [made |-> FALSE, receiver |-> "", estHpl |-> Undef, errorMeters |-> Undef,
              checks |-> FALSE, threshold |-> 0]

\* the settings inputs: estimator mode, integrity checks, threshold (a scenario makes its
\* settings, then its estimates)
SetEstimatorMode ==
  /\ eCalls = 0
  /\ \E m \in EstimatorModes : eMode' = m
  /\ UNCHANGED <<eMasters, eSlaves, eReceivers, eSimTime, eChecks, eThreshold, eLog, eCalls,
                 eCall>>
  /\ UNCHANGED outsideEst

SetEnableIntegrityChecks ==
  /\ eCalls = 0
  /\ \E b \in BOOLEAN : eChecks' = b
  /\ UNCHANGED <<eMasters, eSlaves, eReceivers, eSimTime, eMode, eThreshold, eLog, eCalls,
                 eCall>>
  /\ UNCHANGED outsideEst

SetIntegrityThreshold ==
  /\ eCalls = 0
  /\ \E v \in EstThresholds : eThreshold' = v
  /\ UNCHANGED <<eMasters, eSlaves, eReceivers, eSimTime, eMode, eChecks, eLog, eCalls,
                 eCall>>
  /\ UNCHANGED outsideEst

\* the fuse mode select of a receiver row: every receiver of that label
SetFuseMode ==
  /\ eCalls = 0
  /\ \E k \in DOMAIN eReceivers : \E f \in FuseModes :
       eReceivers' = [i \in DOMAIN eReceivers |->
                        IF eReceivers[i].label = eReceivers[k].label
                        THEN [eReceivers[i] EXCEPT !.fuseMode = f]
                        ELSE eReceivers[i]]
  /\ UNCHANGED <<eMasters, eSlaves, eSimTime, eMode, eChecks, eThreshold, eLog, eCalls,
                 eCall>>
  /\ UNCHANGED outsideEst

\* estimateReceiver(receiverIndex)
EstimateReceiverAt ==
  /\ eCalls < MaxEstimates
  /\ Len(eReceivers) > 0 /\ Len(eMasters) > 0
  /\ \E idx \in DOMAIN eReceivers :
       \E rx \in { eReceivers[idx] } :
       \E pairs \in { EstimatePairs(eMasters, eSlaves, rx, eSimTime) } :
       \E estObj \in { SolvePositionFromTDOA(pairs, [lat |-> rx.lat, lng |-> rx.lng]) } :
       \E estHpl \in { EstHpl(estObj, rx) } :
           \E nLat \in EstNoiseDraws(eMode) : \E nLng \in EstNoiseDraws(eMode) :
           \E fused \in { FusedFix(estObj, rx, nLat, nLng) } :
           \E errorMeters \in { ErrorMeters(rx, fused) } :
             LET hplCheck == HplCheck(estHpl, errorMeters)
             IN  /\ eReceivers' = [i \in DOMAIN eReceivers |->
                                     IF eReceivers[i].label = rx.label
                                     THEN [eReceivers[i] EXCEPT !.lastFix =
                                             [lat |-> fused.lat, lng |-> fused.lng,
                                              err |-> errorMeters, hpl |-> estHpl]]
                                     ELSE eReceivers[i]]
                 /\ eLog' = IF eChecks /\ Exceeds(hplCheck, eThreshold)
                            THEN SliceLog(eLog) \o
                                   << [type |-> "INTEGRITY_ALARM", station |-> eMasters[1].label,
                                       receiver |-> rx.label] >>
                            ELSE eLog
                 /\ eCall' = [made |-> TRUE, receiver |-> rx.label, estHpl |-> estHpl,
                              errorMeters |-> errorMeters, checks |-> eChecks,
                              threshold |-> eThreshold]
  /\ eCalls' = eCalls + 1
  /\ UNCHANGED <<eMasters, eSlaves, eSimTime, eMode, eChecks, eThreshold>>
  /\ UNCHANGED outsideEst

NextEst ==
  \/ SetEstimatorMode
  \/ SetEnableIntegrityChecks
  \/ SetIntegrityThreshold
  \/ SetFuseMode
  \/ EstimateReceiverAt

(***************************************************************************)
(* The station collections: placement by map click, CSV import, deletion   *)
(* by marker click and reset, in Eloran.jsx, Loranc.jsx and the earlier     *)
(* Loranc of unnamed/part_007.  A text is a sequence of characters.         *)
(***************************************************************************)
MaxPlaced == 2
MaxImports == 1
MaxRows == 2

Roles == {"master", "slave", "receiver"}
Digits == <<"0", "1", "2", "3", "4", "5", "6", "7", "8", "9">>
IsDigit(c) == \E d \in DOMAIN Digits : Digits[d] = c
DigitValue(c) == (CHOOSE d \in DOMAIN Digits : Digits[d] = c) - 1
IsSpace(c) == c = " "

\* a cell the row does not have (undefined)
NoText == << "undefined" >>

\* String.prototype.trim
RECURSIVE TrimLeft(_)
TrimLeft(t) == IF t # << >> /\ IsSpace(Head(t)) THEN TrimLeft(Tail(t)) ELSE t
RECURSIVE TrimRight(_)
TrimRight(t) ==
  IF t # << >> /\ IsSpace(t[Len(t)]) THEN TrimRight(SubSeq(t, 1, Len(t) - 1)) ELSE t
Trim(t) == TrimRight(TrimLeft(t))

\* String.prototype.toLowerCase on the letters the tables use
LowerCase(c) ==
  CASE c = "M" -> "m" [] c = "S" -> "s" [] c = "R" -> "r" [] c = "B" -> "b" [] OTHER -> c
ToLowerCase(t) == [i \in DOMAIN t |-> LowerCase(t[i])]

\* the characters of a text as one string
RECURSIVE Join(_)
Join(t) == IF t = << >> THEN "" ELSE Head(t) \o Join(Tail(t))

\* the leading digits of a text
RECURSIVE DigitPrefix(_)
DigitPrefix(t) ==
  IF t # << >> /\ IsDigit(Head(t)) THEN << Head(t) >> \o DigitPrefix(Tail(t)) ELSE << >>
\* the number a sequence of digits writes
RECURSIVE DigitsValue(_)
DigitsValue(ds) ==
  IF ds = << >> THEN 0 ELSE DigitsValue(SubSeq(ds, 1, Len(ds) - 1)) * 10 + DigitValue(ds[Len(ds)])

\* parseFloat(text): leading white space skipped, an optional sign, then the longest prefix
\* that is a number; what follows is ignored; NaN when there is no such prefix or no text
ParseFloat(t) ==
  IF t = NoText THEN NaN
  ELSE LET s == TrimLeft(t)
           neg == s # << >> /\ Head(s) = "-"
           body == IF s # << >> /\ Head(s) \in {"-", "+"} THEN Tail(s) ELSE s
           ds == DigitPrefix(body)
       IN  IF ds = << >> THEN NaN
           ELSE IF neg THEN 0 - DigitsValue(ds) ELSE DigitsValue(ds)

\* the text is a number from end to end
IsNumericText(t) ==
  /\ t # NoText
  /\ LET s == Trim(t)
         body == IF s # << >> /\ Head(s) \in {"-", "+"} THEN Tail(s) ELSE s
     IN  body # << >> /\ \A i \in DOMAIN body : IsDigit(body[i])

\* (row.role || '').toLowerCase().trim()
RoleOf(row) == IF row.role = NoText THEN "" ELSE Join(Trim(ToLowerCase(row.role)))

\* the rows tables are made of
RowCatalogue ==
  { [role |-> <<"m","a","s","t","e","r">>, lat |-> <<"1","2">>, lng |-> <<"5">>, label |-> ""],
    [role |-> <<"S","l","a","v","e"," ">>, lat |-> <<" ","7">>, lng |-> <<"-","5">>, label |-> ""],
    [role |-> <<"b","o","s","s">>, lat |-> <<"1","2">>, lng |-> <<"5">>, label |-> ""],
    [role |-> <<"r","e","c","e","i","v","e","r">>, lat |-> <<"a","b","c">>, lng |-> <<"5">>,
     label |-> ""],
    [role |-> NoText, lat |-> << >>, lng |-> NoText, label |-> ""],
    [role |-> <<"m","a","s","t","e","r">>, lat |-> <<"1","2","a">>, lng |-> <<"5">>, label |-> ""],
    [role |-> <<"m","a","s","t","e","r">>, lat |-> <<"3">>, lng |-> <<"4">>, label |-> "M1"] }

\* the tables: up to MaxRows rows
Tables == UNION { [1..n -> RowCatalogue] : n \in 1..MaxRows }

\* where the map is clicked
ClickPoints == { [lat |-> 0, lng |-> 0], [lat |-> 1000, lng |-> 2000] }

Prefix(role) == CASE role = "master" -> "M" [] role = "slave" -> "S" [] OTHER -> "R"

\* the label template: the prefix of the role and a number
CounterLabel(role, n) == Prefix(role) \o ToString(n)

\* the state of the collections, as one record
Collections(ms, ss, rs, ctr) == [masters |-> ms, slaves |-> ss, receivers |-> rs, counter |-> ctr]

\* a station of the role appended to its collection
Appended(c, role, st) ==
  CASE role = "master" -> [c EXCEPT !.masters = Append(@, st)]
    [] role = "slave" -> [c EXCEPT !.slaves = Append(@, st)]
    [] OTHER -> [c EXCEPT !.receivers = Append(@, st)]

\* the body of data.forEach for one row: the collections and counters, validRows and
\* errors after the row at index (0-based)
ImportRow(acc, row, index) ==
  LET role == RoleOf(row)
      lat == ParseFloat(row.lat)
      lng == ParseFloat(row.lng)
  IN  IF role = "" \/ role \notin Roles
      THEN [acc EXCEPT !.errors = Append(@, [row |-> index + 1, what |-> "invalid role"])]
      ELSE IF lat = NaN \/ lng = NaN
      THEN [acc EXCEPT !.errors = Append(@, [row |-> index + 1, what |-> "invalid coords"])]
      ELSE LET n == acc.c.counter[role] + 1
               label == IF row.label # "" THEN row.label ELSE CounterLabel(role, n)
               c1 == [acc.c EXCEPT !.counter[role] = n]
           IN  [acc EXCEPT !.c = Appended(c1, role, [label |-> label, lat |-> lat, lng |-> lng]),
                           !.validRows = @ + 1]

\* data.forEach over the rows from index on
RECURSIVE ImportRows(_, _, _)
ImportRows(acc, rows, index) ==
  IF index >= Len(rows) THEN acc
  ELSE ImportRows(ImportRow(acc, rows[index + 1], index), rows, index + 1)

ZeroCounter == [master |-> 0, slave |-> 0, receiver |-> 0]

StationsInit ==
  /\ kVariant \in {"Eloran", "Loranc", "part_007"}
  /\ kMasters = << >> /\ kSlaves = << >> /\ kReceivers = << >>
  /\ kCounter = ZeroCounter
  /\ kPlaced = 0 /\ kImports = 0
  /\ kTable = << >> /\ kValidRows = 0 /\ kErrors = << >>

\* no station scenario: the state of this part in the other specifications
StationsIdle ==
  /\ kVariant = "none"
  /\ kMasters = << >> /\ kSlaves = << >> /\ kReceivers = << >>
  /\ kCounter = ZeroCounter
  /\ kPlaced = 0 /\ kImports = 0
  /\ kTable = << >> /\ kValidRows = 0 /\ kErrors = << >>

\* the number the label of a placement is made of: Eloran.jsx and Loranc.jsx count the
\* placements in a ref; part_007 takes the length of the collection as it was when the
\* click handler was registered, at the first render
PlacementNumber(role) ==
  IF kVariant = "part_007" THEN 0 + 1 ELSE kCounter[role] + 1

\* a click on the map in the mode add-master, add-slave or add-receiver
PlaceStation ==
  /\ kPlaced < MaxPlaced
  /\ \E role \in Roles : \E point \in ClickPoints :
       LET n == PlacementNumber(role)
           c == Collections(kMasters, kSlaves, kReceivers, kCounter)
           c1 == IF kVariant = "part_007" THEN c ELSE [c EXCEPT !.counter[role] = n]
           c2 == Appended(c1, role, [label |-> CounterLabel(role, n),
                                     lat |-> point.lat, lng |-> point.lng])
       IN  /\ kMasters' = c2.masters /\ kSlaves' = c2.slaves /\ kReceivers' = c2.receivers
           /\ kCounter' = c2.counter
  /\ kPlaced' = kPlaced + 1
  /\ UNCHANGED <<kVariant, kImports, kTable, kValidRows, kErrors>>
  /\ UNCHANGED outsideStations

\* handleCsvImport with the parsed table results.data
HandleCsvImport ==
  /\ kVariant = "Eloran"
  /\ kImports < MaxImports
  /\ \E data \in Tables :
       LET acc == ImportRows([c |-> Collections(kMasters, kSlaves, kReceivers, kCounter),
                              validRows |-> 0, errors |-> << >>], data, 0)
       IN  /\ kMasters' = acc.c.masters /\ kSlaves' = acc.c.slaves
           /\ kReceivers' = acc.c.receivers
           /\ kCounter' = acc.c.counter
           /\ kTable' = data
           /\ kValidRows' = acc.validRows
           /\ kErrors' = acc.errors
  /\ kImports' = kImports + 1
  /\ UNCHANGED <<kVariant, kPlaced>>
  /\ UNCHANGED outsideStations

\* a click on a marker in the mode pan: the stations of the marker's type and label go
DeleteMarker ==
  /\ kVariant = "Eloran"
  /\ \E role \in Roles :
       LET coll == CASE role = "master" -> kMasters [] role = "slave" -> kSlaves
                     [] OTHER -> kReceivers
       IN  \E k \in DOMAIN coll :
             LET kept == SelectSeq(coll, LAMBDA s : s.label # coll[k].label) IN
             /\ kMasters' = IF role = "master" THEN kept ELSE kMasters
             /\ kSlaves' = IF role = "slave" THEN kept ELSE kSlaves
             /\ kReceivers' = IF role = "receiver" THEN kept ELSE kReceivers
  /\ UNCHANGED <<kVariant, kCounter, kPlaced, kImports, kTable, kValidRows, kErrors>>
  /\ UNCHANGED outsideStations

\* resetAll of Eloran.jsx, resetSimulation of Loranc.jsx
ResetStations ==
  /\ kVariant \in {"Eloran", "Loranc"}
  /\ kMasters' = << >> /\ kSlaves' = << >> /\ kReceivers' = << >>
  /\ kCounter' = ZeroCounter
  /\ UNCHANGED <<kVariant, kPlaced, kImports, kTable, kValidRows, kErrors>>
  /\ UNCHANGED outsideStations

NextStations ==
  \/ PlaceStation
  \/ HandleCsvImport
  \/ DeleteMarker
  \/ ResetStations

(***************************************************************************)
(* applyAsfToMaster of Eloran.jsx and the 'eval' message of asfWorker.js.   *)
(* An ASF code is held as the set of identifiers it references; every       *)
(* reference is evaluated when the code runs.                               *)
(***************************************************************************)
MaxApplies == 2

\* asfMap: null
NoAsf == {"null"}

\* the parameters of the function and the properties of Math a code may use
AllowList == {"lat", "lng", "sin", "cos", "sqrt", "abs", "PI"}
MathNames == {"sin", "cos", "sqrt", "abs", "PI"}
\* blacklist of applyAsfToMaster
Blacklist == {"window", "document", "fetch", "xmlhttprequest", "importscripts", "self",
              "postmessage", "location", "navigator", "require"}
\* the global names a dedicated worker defines, and those a window defines
WorkerGlobals == {"self", "fetch", "XMLHttpRequest", "importScripts", "postMessage", "location",
                  "navigator", "globalThis", "eval"}
WindowGlobals == {"window", "Window", "document", "fetch", "XMLHttpRequest", "self", "postMessage",
                  "location", "navigator", "globalThis", "eval", "localStorage"}

\* the lower case of an identifier (the flag i of the blacklist's expressions)
LowerId(id) ==
  CASE id = "Window" -> "window" [] id = "XMLHttpRequest" -> "xmlhttprequest"
    [] id = "importScripts" -> "importscripts" [] id = "postMessage" -> "postmessage"
    [] id = "globalThis" -> "globalthis" [] id = "localStorage" -> "localstorage"
    [] id = "PI" -> "pi" [] OTHER -> id

\* the codes entered in the ASF text box
AsfCodes ==
  { {}, {"lat", "lng"}, {"sin", "lat"}, {"fetch", "lat"}, {"Window"}, {"globalThis", "lat"},
    {"localStorage", "lng"}, {"foo", "lng"} }

\* re.test(code) for a token of the blacklist
Blacklisted(code) == \E id \in code : LowerId(id) \in Blacklist

\* new Function('lat','lng','with(Math){ code }') called in the worker: whether it returns
EvalInWorker(code) == code \subseteq ({"lat", "lng"} \cup MathNames \cup WorkerGlobals)

\* createAsfFunctionFromText(code) called on the main thread: whether it returns
EvalInWindow(code) == code \subseteq ({"lat", "lng"} \cup WindowGlobals)

\* setMasters(prev => prev.map(m => m.label === asfTarget ? {...m, asfMap: fn} : m))
WithAsf(ms, target, code) ==
  [i \in DOMAIN ms |-> IF ms[i].label = target THEN [ms[i] EXCEPT !.asfMap = code] ELSE ms[i]]

\* the assignments of a sequence of settled validations, in order
RECURSIVE AssignAll(_, _)
AssignAll(ms, ps) ==
  IF ps = << >> THEN ms ELSE AssignAll(WithAsf(ms, Head(ps).target, Head(ps).code), Tail(ps))

AsfInit ==
  /\ aMasters = << [label |-> "M1", asfMap |-> NoAsf], [label |-> "M2", asfMap |-> NoAsf] >>
  /\ aWorkerOk \in BOOLEAN
  /\ aPending = << >> /\ aInbox = << >> /\ aOutbox = << >>
  /\ aApplies = 0

\* no ASF scenario: the state of this part in the other specifications
AsfIdle ==
  /\ aMasters = << >> /\ aWorkerOk = TRUE
  /\ aPending = << >> /\ aInbox = << >> /\ aOutbox = << >>
  /\ aApplies = 0

\* applyAsfToMaster with asfTarget = target and asfText = code
ApplyAsfToMaster ==
  /\ aApplies < MaxApplies
  /\ aApplies' = aApplies + 1
  /\ \E target \in {"", "M1", "M2"} : \E code \in AsfCodes :
       IF target = "" \/ Blacklisted(code)
       THEN UNCHANGED <<aMasters, aPending, aInbox>>
       ELSE IF aWorkerOk
       THEN /\ aPending' = Append(aPending, [target |-> target, code |-> code])
            /\ aInbox' = Append(aInbox, code)
            /\ UNCHANGED aMasters
       ELSE /\ aMasters' = IF EvalInWindow(code) THEN WithAsf(aMasters, target, code) ELSE aMasters
            /\ UNCHANGED <<aPending, aInbox>>
  /\ UNCHANGED <<aWorkerOk, aOutbox>>
  /\ UNCHANGED outsideAsf

\* self.onmessage of asfWorker.js for a message of type 'eval'
AsfWorkerEval ==
  /\ aInbox # << >>
  /\ aInbox' = Tail(aInbox)
  /\ aOutbox' = Append(aOutbox, IF EvalInWorker(Head(aInbox)) THEN "result" ELSE "error")
  /\ UNCHANGED <<aMasters, aWorkerOk, aPending, aApplies>>
  /\ UNCHANGED outsideAsf

\* a message of the worker reaches the main thread: every listener registered on the worker
\* receives it and settles its validation
AsfMessage ==
  /\ aOutbox # << >>
  /\ aOutbox' = Tail(aOutbox)
  /\ aMasters' = IF Head(aOutbox) = "result" THEN AssignAll(aMasters, aPending) ELSE aMasters
  /\ aPending' = << >>
  /\ UNCHANGED <<aWorkerOk, aInbox, aApplies>>
  /\ UNCHANGED outsideAsf

\* the timer of a validation fires (1200 ms): its listener is removed and it is rejected
AsfTimeout ==
  /\ \E k \in DOMAIN aPending :
       aPending' = [i \in 1..(Len(aPending) - 1) |-> IF i < k THEN aPending[i] ELSE aPending[i + 1]]
  /\ UNCHANGED <<aMasters, aWorkerOk, aInbox, aOutbox, aApplies>>
  /\ UNCHANGED outsideAsf

NextAsf ==
  \/ ApplyAsfToMaster
  \/ AsfWorkerEval
  \/ AsfMessage
  \/ AsfTimeout

(***************************************************************************)
(* Contour extraction: extractContoursFromFloat32 of the inline worker of   *)
(* Loranc.jsx, extractContours of the earlier Loranc (part_007), and         *)
(* marchingSquaresZero of gridWorker.js, on a grid of GridN by GridN values. *)
(* Points are <<x, y>> in units of 1/CellSize of a cell.                     *)
(***************************************************************************)
CellSize == 32
MaxRaised == 2

\* gridBounds of the extraction: GridN - 1 cells of CellSize each way, from 0
ContourBounds ==
  [minX |-> 0, minY |-> 0, maxX |-> (GridN - 1) * CellSize, maxY |-> (GridN - 1) * CellSize]

\* the values of a grid: a plateau at the least or at the greatest value, with up to
\* MaxRaised nodes off it
FieldValues == {-15, 1, 17}
FieldNodes == { S \in SUBSET Cells : Cardinality(S) <= MaxRaised }
FieldsOn(plateau) ==
  UNION { { [k \in Cells |-> IF k \in S THEN f[k] ELSE plateau] :
              f \in [S -> FieldValues \ {plateau}] } : S \in FieldNodes }
Fields == FieldsOn(MinOf(FieldValues)) \cup FieldsOn(MaxOf(FieldValues))
ContourLevels == {0, 16}

\* the cells, row by row, and the corners of a cell: value and position
ContourCells == 1..((GridN - 1) * (GridN - 1))
CellCol(c) == (c - 1) % (GridN - 1)
CellRow(c) == (c - 1) \div (GridN - 1)
Corner(grid, i, j) ==
  [x |-> CellX(ContourBounds, i), y |-> CellY(ContourBounds, j), v |-> grid[j * GridN + i + 1]]
V00(grid, c) == Corner(grid, CellCol(c), CellRow(c))
V10(grid, c) == Corner(grid, CellCol(c) + 1, CellRow(c))
V11(grid, c) == Corner(grid, CellCol(c) + 1, CellRow(c) + 1)
V01(grid, c) == Corner(grid, CellCol(c), CellRow(c) + 1)

\* n / d rounded to the nearest unit
RoundDiv(n, d) == IF d > 0 THEN (2 * n + d) \div (2 * d) ELSE (2 * (0 - n) - d) \div (2 * (0 - d))

\* the interpolation taken from the far corner
InterpFromFar(x1, v1, x2, v2, level) ==
  IF v2 - v1 = 0 THEN x1 + ((x2 - x1) \div 2)
  ELSE x1 + RoundDiv((level - v2) * (x2 - x1), v2 - v1)

\* interp of Loranc.jsx, one coordinate: x1 + t * (x2 - x1)
\* with t = 0.5 if |v2 - v1| < 1e-12, else (level - v1) / (v2 - v1)
InterpLoranc(x1, v1, x2, v2, level) ==
  IF v2 - v1 = 0 THEN x1 + ((x2 - x1) \div 2)
  ELSE x1 + RoundDiv((level - v1) * (x2 - x1), v2 - v1)

\* interp of part_007: t = (level - v1) / (v2 - v1 || 1e-12)
InterpEarlier(x1, v1, x2, v2, level) ==
  IF v2 - v1 = 0 THEN x1 + (level - v1) * (x2 - x1) * 1000000
  ELSE x1 + RoundDiv((level - v1) * (x2 - x1), v2 - v1)

\* idxCase: bit 1 for v00 >= level, 2 for v10, 4 for v11, 8 for v01
IdxCase(grid, c, level) ==
  (IF V00(grid, c).v >= level THEN 1 ELSE 0) + (IF V10(grid, c).v >= level THEN 2 ELSE 0)
    + (IF V11(grid, c).v >= level THEN 4 ELSE 0) + (IF V01(grid, c).v >= level THEN 8 ELSE 0)

\* the corners an edge runs between, in the order interp is given them:
\* 0 bottom v00-v10, 1 right v10-v11, 2 top v11-v01, 3 left v01-v00
EdgeFrom(grid, c, e) ==
  CASE e = 0 -> V00(grid, c) [] e = 1 -> V10(grid, c) [] e = 2 -> V11(grid, c) [] e = 3 -> V01(grid, c)
EdgeTo(grid, c, e) ==
  CASE e = 0 -> V10(grid, c) [] e = 1 -> V11(grid, c) [] e = 2 -> V01(grid, c) [] e = 3 -> V00(grid, c)

\* EDGE_PAIRS_BY_CASE
EDGE_PAIRS_BY_CASE(idxCase) ==
  CASE idxCase = 1 -> << <<0, 3>> >>
    [] idxCase = 2 -> << <<0, 1>> >>
    [] idxCase = 3 -> << <<1, 3>> >>
    [] idxCase = 4 -> << <<1, 2>> >>
    [] idxCase = 5 -> << <<0, 1>>, <<2, 3>> >>
    [] idxCase = 6 -> << <<0, 2>> >>
    [] idxCase = 7 -> << <<2, 3>> >>
    [] idxCase = 8 -> << <<2, 3>> >>
    [] idxCase = 9 -> << <<0, 2>> >>
    [] idxCase = 10 -> << <<0, 3>>, <<1, 2>> >>
    [] idxCase = 11 -> << <<1, 2>> >>
    [] idxCase = 12 -> << <<1, 3>> >>
    [] idxCase = 13 -> << <<0, 1>> >>
    [] idxCase = 14 -> << <<0, 3>> >>
    [] OTHER -> << >>

\* center >= level, with center = (v00 + v10 + v11 + v01) * 0.25
CenterAtLeast(grid, c, level) ==
  V00(grid, c).v + V10(grid, c).v + V11(grid, c).v + V01(grid, c).v >= 4 * level

\* resolvedPairs: in the cases 5 and 10 one pair of the two, chosen by the center value
ResolvedPairs(grid, c, level) ==
  LET idxCase == IdxCase(grid, c, level)
  IN  IF idxCase = 5
      THEN (IF CenterAtLeast(grid, c, level) THEN << <<0, 1>> >> ELSE << <<2, 3>> >>)
      ELSE IF idxCase = 10
      THEN (IF CenterAtLeast(grid, c, level) THEN << <<0, 3>> >> ELSE << <<1, 2>> >>)
      ELSE EDGE_PAIRS_BY_CASE(idxCase)

\* computeEdgePoint(e) of Loranc.jsx
ComputeEdgePoint(grid, c, e, level) ==
  LET a == EdgeFrom(grid, c, e)
      b == EdgeTo(grid, c, e)
  IN  << InterpLoranc(a.x, a.v, b.x, b.v, level), InterpLoranc(a.y, a.v, b.y, b.v, level) >>

\* the segments Loranc.jsx pushes for a cell
CellSegmentsLoranc(grid, c, level) ==
  LET pairs == ResolvedPairs(grid, c, level)
  IN  [k \in DOMAIN pairs |->
        [cell |-> c, ea |-> pairs[k][1], eb |-> pairs[k][2],
         a |-> ComputeEdgePoint(grid, c, pairs[k][1], level),
         b |-> ComputeEdgePoint(grid, c, pairs[k][2], level)]]

\* the segments of a level, cell by cell
SegmentsLoranc(grid, level) ==
  Flatten([c \in ContourCells |-> CellSegmentsLoranc(grid, c, level)])

\* the crossing of an edge in part_007: bottom v00-v10, right v10-v11, top v11-v01,
\* left v00-v01
EdgePointEarlier(grid, c, e, level) ==
  LET a == IF e = 3 THEN V00(grid, c) ELSE EdgeFrom(grid, c, e)
      b == IF e = 3 THEN V01(grid, c) ELSE EdgeTo(grid, c, e)
  IN  << InterpEarlier(a.x, a.v, b.x, b.v, level), InterpEarlier(a.y, a.v, b.y, b.v, level) >>

\* the switch of part_007: the edges of the segments of a case, first point first
EdgePairsEarlier(idx) ==
  CASE idx \in {1, 14} -> << <<0, 3>> >>
    [] idx \in {2, 13} -> << <<1, 0>> >>
    [] idx \in {3, 12} -> << <<1, 3>> >>
    [] idx \in {4, 11} -> << <<2, 1>> >>
    [] idx \in {5, 10} -> << <<0, 3>>, <<2, 1>> >>
    [] idx \in {6, 9} -> << <<0, 2>> >>
    [] idx \in {7, 8} -> << <<3, 2>> >>
    [] OTHER -> << >>

\* the segments part_007 pushes for a cell
CellSegmentsEarlier(grid, c, level) ==
  LET pairs == EdgePairsEarlier(IdxCase(grid, c, level))
  IN  [k \in DOMAIN pairs |->
        [cell |-> c, ea |-> pairs[k][1], eb |-> pairs[k][2],
         a |-> EdgePointEarlier(grid, c, pairs[k][1], level),
         b |-> EdgePointEarlier(grid, c, pairs[k][2], level)]]

SegmentsEarlier(grid, level) ==
  Flatten([c \in ContourCells |-> CellSegmentsEarlier(grid, c, level)])

\* the edges marchingSquaresZero tests in a cell, in its order: left, bottom, right, top
\* (numbered as in Loranc.jsx), each kept if its ends differ in sign
CellEdges(grid, c) ==
  LET crossed(a, b, e) == IF GeZero(a.v) # GeZero(b.v) THEN << e >> ELSE << >>
      caseIndex == CaseIndex(V00(grid, c).v, V10(grid, c).v, V11(grid, c).v, V01(grid, c).v)
  IN  IF caseIndex = 0 \/ caseIndex = 15 THEN << >>
      ELSE crossed(V00(grid, c), V01(grid, c), 3) \o crossed(V00(grid, c), V10(grid, c), 0)
             \o crossed(V10(grid, c), V11(grid, c), 1) \o crossed(V01(grid, c), V11(grid, c), 2)

\* the line marchingSquaresZero pushes for a cell, as the segments between its points
CellSegmentsZero(grid, c) ==
  LET pts == CellPoints(grid, ContourBounds, CellCol(c), CellRow(c))
      es == CellEdges(grid, c)
  IN  IF Len(pts) < 2 THEN << >>
      ELSE [k \in 1..(Len(pts) - 1) |->
             [cell |-> c, ea |-> es[k], eb |-> es[k + 1], a |-> pts[k], b |-> pts[k + 1]]]

SegmentsZero(grid) == Flatten([c \in ContourCells |-> CellSegmentsZero(grid, c)])

\* lines of marchingSquaresZero: one per cell with a crossing, its points in order
RECURSIVE LinesZero(_, _, _)
LinesZero(grid, c, first) ==
  IF c > (GridN - 1) * (GridN - 1) THEN << >>
  ELSE LET n == Len(CellSegmentsZero(grid, c))
           pts == CellPoints(grid, ContourBounds, CellCol(c), CellRow(c))
       IN  IF n = 0 THEN LinesZero(grid, c + 1, first)
           ELSE << [points |-> pts, segs |-> [k \in 1..n |-> first + k - 1], pass |-> 1] >>
                  \o LinesZero(grid, c + 1, first + n)

\* keyFor: the point in units of quant = max(cellDx, cellDy) * 0.25, rounded (Math.round)
Quantize(v) == (8 * v + CellSize) \div (2 * CellSize)
KeyFor(p) == << Quantize(p[1]), Quantize(p[2]) >>

\* the point of a segment at a side: 0 its start, 1 its end
PointAt(segments, si, side) == IF side = 0 THEN segments[si].a ELSE segments[si].b

\* endpointMap.get(k): the segment ends of key k, in the order they were put in
EndsInOrder(segments) == [n \in 1..(2 * Len(segments)) |-> << (n + 1) \div 2, (n + 1) % 2 >>]
Candidates(segments, k) ==
  SelectSeq(EndsInOrder(segments), LAMBDA en : KeyFor(PointAt(segments, en[1], en[2])) = k)

\* the loop of walkFrom: use the segment, push its other end, go on with the first
\* unused segment that ends at the key of that point
RECURSIVE Walk(_, _, _, _, _)
Walk(segments, walked, poly, curSeg, curSide) ==
  LET nextPt == PointAt(segments, curSeg, 1 - curSide)
      now == [points |-> Append(poly.points, nextPt), segs |-> Append(poly.segs, curSeg),
              pass |-> poly.pass]
      free == SelectSeq(Candidates(segments, KeyFor(nextPt)),
                        LAMBDA en : en[1] # curSeg /\ en[1] \notin (walked \cup {curSeg}))
  IN  IF free = << >> THEN now
      ELSE Walk(segments, walked \cup {curSeg}, now, free[1][1], free[1][2])

\* walkFrom(segIdx, fromSide), called for a segment not yet used
WalkFrom(segments, walked, segIdx, fromSide, pass) ==
  Walk(segments, walked,
       [points |-> << PointAt(segments, segIdx, fromSide) >>, segs |-> << >>, pass |-> pass],
       segIdx, fromSide)

\* the segments the polylines made so far have used
Walked(polys) == UNION { Range(polys[k].segs) : k \in DOMAIN polys }

\* the first pass: from every segment end whose key has degree 1, in the order of the keys
RECURSIVE OpenPass(_, _, _)
OpenPass(segments, n, polys) ==
  IF n > 2 * Len(segments) THEN polys
  ELSE LET en == EndsInOrder(segments)[n]
           k == KeyFor(PointAt(segments, en[1], en[2]))
       IN  IF Len(Candidates(segments, k)) = 1 /\ en[1] \notin Walked(polys)
           THEN OpenPass(segments, n + 1,
                         Append(polys, WalkFrom(segments, Walked(polys), en[1], en[2], 1)))
           ELSE OpenPass(segments, n + 1, polys)

\* the second pass: from the start of every segment still unused
RECURSIVE LoopPass(_, _, _)
LoopPass(segments, si, polys) ==
  IF si > Len(segments) THEN polys
  ELSE IF si \in Walked(polys) THEN LoopPass(segments, si + 1, polys)
  ELSE LoopPass(segments, si + 1,
                Append(polys, WalkFrom(segments, Walked(polys), si, 0, 2)))

\* the polylines of a level in Loranc.jsx
StitchLoranc(segments) == LoopPass(segments, 1, OpenPass(segments, 1, << >>))

\* part_007: whether two points are closer than EPS, half a cell
Near(p, q) ==
  4 * ((p[1] - q[1]) * (p[1] - q[1]) + (p[2] - q[2]) * (p[2] - q[2])) < CellSize * CellSize

\* part_007: extend the polyline by the first unused segment with an end near its last
\* or its first point, until none is
RECURSIVE Extend(_, _, _)
Extend(segments, used, poly) ==
  LET last == poly.points[Len(poly.points)]
      first == poly.points[1]
      fits(k) == k \notin used /\ (Near(last, segments[k].a) \/ Near(last, segments[k].b)
                                    \/ Near(first, segments[k].a) \/ Near(first, segments[k].b))
      ks == { k \in DOMAIN segments : fits(k) }
  IN  IF ks = {} THEN poly
      ELSE LET k == MinOf(ks)
               s == segments[k]
               grown ==
                 IF Near(last, s.a)
                 THEN [poly EXCEPT !.points = Append(@, s.b), !.segs = Append(@, k)]
                 ELSE IF Near(last, s.b)
                 THEN [poly EXCEPT !.points = Append(@, s.a), !.segs = Append(@, k)]
                 ELSE IF Near(first, s.a)
                 THEN [poly EXCEPT !.points = << s.b >> \o @, !.segs = << k >> \o @]
                 ELSE [poly EXCEPT !.points = << s.a >> \o @, !.segs = << k >> \o @]
           IN  Extend(segments, used \cup {k}, grown)

\* the polylines of a level in part_007: one from every segment not yet used, in order
RECURSIVE StitchEarlier(_, _, _)
StitchEarlier(segments, sidx, polys) ==
  IF sidx > Len(segments) THEN polys
  ELSE IF sidx \in Walked(polys) THEN StitchEarlier(segments, sidx + 1, polys)
  ELSE StitchEarlier(segments, sidx + 1,
         Append(polys,
                Extend(segments, Walked(polys) \cup {sidx},
                       [points |-> << segments[sidx].a, segments[sidx].b >>,
                        segs |-> << sidx >>, pass |-> 1])))

ContourInit ==
  /\ tVariant \in {"Loranc", "part_007", "gridWorker"}
  /\ tGrid \in Fields
  /\ tLevel \in (IF tVariant = "gridWorker" THEN {0} ELSE ContourLevels)
  /\ tSegments = << >>
  /\ tPolylines = << >>
  /\ tDone = FALSE

ContourIdle ==
  /\ tVariant = "Loranc"
  /\ tGrid = [k \in Cells |-> MinOf(FieldValues)]
  /\ tLevel = 0
  /\ tSegments = << >>
  /\ tPolylines = << >>
  /\ tDone = TRUE

\* extractContoursFromFloat32 of Loranc.jsx for one level
ExtractContoursFromFloat32 ==
  /\ tVariant = "Loranc" /\ ~tDone
  /\ tSegments' = SegmentsLoranc(tGrid, tLevel)
  /\ tPolylines' = StitchLoranc(tSegments')
  /\ tDone' = TRUE
  /\ UNCHANGED <<tVariant, tGrid, tLevel>>
  /\ UNCHANGED outsideContour

\* extractContours of part_007 for one level
ExtractContours ==
  /\ tVariant = "part_007" /\ ~tDone
  /\ tSegments' = SegmentsEarlier(tGrid, tLevel)
  /\ tPolylines' = StitchEarlier(tSegments', 1, << >>)
  /\ tDone' = TRUE
  /\ UNCHANGED <<tVariant, tGrid, tLevel>>
  /\ UNCHANGED outsideContour

\* marchingSquaresZero of gridWorker.js
MarchingSquaresZeroCall ==
  /\ tVariant = "gridWorker" /\ ~tDone
  /\ tSegments' = SegmentsZero(tGrid)
  /\ tPolylines' = LinesZero(tGrid, 1, 1)
  /\ tDone' = TRUE
  /\ UNCHANGED <<tVariant, tGrid, tLevel>>
  /\ UNCHANGED outsideContour

NextContour ==
  \/ ExtractContoursFromFloat32
  \/ ExtractContours
  \/ MarchingSquaresZeroCall

(***************************************************************************)
(* Contour levels: levelsMeters of computeGrid in Eloran.jsx and Loranc.jsx, *)
(* the levels of the inline worker of Loranc.jsx, the level of gridWorker.js.*)
(* Levels are in metres.                                                     *)
(***************************************************************************)
\* maxDist: the largest distance of a master to a slave, 0 to begin with
MaxDist(mMeters, sMeters) ==
  MaxOf({0} \cup { Hypot(mMeters[mi].x - sMeters[si].x, mMeters[mi].y - sMeters[si].y) :
                     mi \in DOMAIN mMeters, si \in DOMAIN sMeters })

\* levelsMeters of Eloran's computeGrid: k * step for k = -10..10, step = max(100, maxDist / 20)
LevelsEloran(mMeters, sMeters) ==
  LET step == Max(100, MaxDist(mMeters, sMeters) \div 20)
  IN  [i \in 1..21 |-> (i - 11) * step]

\* levelsMeters of Loranc's computeGrid: k * step for k = -8..8, step = max(200, maxDist / 16)
LevelsLoranc(mMeters, sMeters) ==
  LET step == Max(200, MaxDist(mMeters, sMeters) \div 16)
  IN  [i \in 1..17 |-> (i - 9) * step]

\* levels of the inline worker of Loranc.jsx: levelsMeters if it is a non-empty array
WorkerLevels(levelsMeters) ==
  IF Len(levelsMeters) > 0 THEN levelsMeters
  ELSE << -5000, -3000, -1000, 0, 1000, 3000, 5000 >>

\* the level of every contour gridWorker.js and the fallback of Eloran.jsx push:
\* levelSeconds 0
ZeroLevel == << 0 >>

\* levels a caller of the worker may send itself
CallerLevels == { << >>, << -300, 0, 300 >> }

LevelInit ==
  /\ vVariant \in {"Eloran", "Loranc", "worker"}
  /\ vMasters \in Picks(MasterCatalogue)
  /\ vSlaves \in Picks(SlaveCatalogue)
  /\ vLevelsMeters = << >>
  /\ vRequest = << >>
  /\ vContours = << >>
  /\ vpc = "input"

LevelIdle ==
  /\ vVariant = "Eloran"
  /\ vMasters = << >> /\ vSlaves = << >>
  /\ vLevelsMeters = << >>
  /\ vRequest = << >>
  /\ vContours = << >>
  /\ vpc = "none"

\* computeGrid up to the message to the worker: Eloran's message has no levelsMeters,
\* Loranc's carries levelsMeters
ComputeGridLevels ==
  /\ vpc = "input" /\ vVariant \in {"Eloran", "Loranc"}
  /\ vLevelsMeters' =
       IF vVariant = "Eloran"
       THEN LevelsEloran([k \in DOMAIN vMasters |-> MMeters(vMasters[k])],
                         [k \in DOMAIN vSlaves |-> SMeters(vSlaves[k])])
       ELSE LevelsLoranc([k \in DOMAIN vMasters |-> LorancMeters(vMasters[k])],
                         [k \in DOMAIN vSlaves |-> LorancMeters(vSlaves[k])])
  /\ vRequest' = IF vVariant = "Eloran" THEN << >> ELSE vLevelsMeters'
  /\ vpc' = "posted"
  /\ UNCHANGED <<vVariant, vMasters, vSlaves, vContours>>
  /\ UNCHANGED outsideLevel

\* a computeGrid message to the inline worker of Loranc.jsx from another caller
PostComputeGrid ==
  /\ vpc = "input" /\ vVariant = "worker"
  /\ vRequest' \in CallerLevels
  /\ vpc' = "posted"
  /\ UNCHANGED <<vVariant, vMasters, vSlaves, vLevelsMeters, vContours>>
  /\ UNCHANGED outsideLevel

\* the worker extracts the contours: gridWorker.js at level zero, the inline worker of
\* Loranc.jsx at each of its levels
WorkerExtractLevels ==
  /\ vpc = "posted"
  /\ vContours' = IF vVariant = "Eloran" THEN ZeroLevel ELSE WorkerLevels(vRequest)
  /\ vpc' = "done"
  /\ UNCHANGED <<vVariant, vMasters, vSlaves, vLevelsMeters, vRequest>>
  /\ UNCHANGED outsideLevel

NextLevel ==
  \/ ComputeGridLevels
  \/ PostComputeGrid
  \/ WorkerExtractLevels

(***************************************************************************)
(* broadcastDDS of Eloran.jsx, the interval that calls it every fifth      *)
(* second, and logEvents.  A DDS event is held with its station, its       *)
(* integrity status and its diffMeters; seq, utcMs, timestampSimSec and    *)
(* time are left out.  The interval is the one of the last run of its      *)
(* effect, which runs again when masters or enableDDSGlobal change.        *)
(***************************************************************************)
MaxDdsTime == 5
MaxDdsCalls == 1

\* addMaster: ddsEnabled true, diffCorrections {enabled: true, avgMeters: 0}; M2 is imported
\* from a row whose ddsEnabled column is 'false'
DdsMasterCatalogue ==
  << [label |-> "M1", ddsEnabled |-> TRUE, diffEnabled |-> TRUE, avgMeters |-> 0],
     [label |-> "M2", ddsEnabled |-> FALSE, diffEnabled |-> TRUE, avgMeters |-> 0] >>
DdsScenarios == { << DdsMasterCatalogue[1] >>, DdsMasterCatalogue }
\* the averages typed into the edit dialog, metres
DdsAverages == {7}

\* events of broadcastDDS with the masters and the settings it sees
DdsEvents(masters, global, checks) ==
  IF ~global THEN << >>
  ELSE LET on == { i \in DOMAIN masters : masters[i].ddsEnabled }
       IN  [k \in 1..Cardinality(on) |->
              LET m == masters[Nth(on, k)]
              IN  [type |-> "DDS", station |-> m.label,
                   integrity |-> IF checks THEN "OK" ELSE "UNKNOWN",
                   diffMeters |-> IF m.diffEnabled THEN OrZero(m.avgMeters) ELSE 0]]

\* setLogEvents(prev => [...prev.slice(-400), ...events])
AppendLog(prev, events) == SliceLog(prev) \o events

\* what a render's broadcastDDS closes over
Closure(masters, global, checks) == [masters |-> masters, global |-> global, checks |-> checks]

\* logEvents after more than 400 simulations in the first second, each with its broadcast of
\* one batch: the last 400 entries and the batch
FilledLog(batch) ==
  LET n == Len(batch)
  IN  [i \in 1..(LogKeep + n) |-> batch[((i - 1 + n * LogKeep - LogKeep) % n) + 1]]

DdsInit ==
  /\ dMasters \in DdsScenarios
  /\ dGlobal = TRUE /\ dChecks = TRUE
  /\ dTimer = Closure(dMasters, dGlobal, dChecks)
  /\ dSimTime = 0
  /\ dLog \in { << >>, FilledLog(DdsEvents(dMasters, TRUE, TRUE)) }
  /\ dBatch = Len(DdsEvents(dMasters, TRUE, TRUE))
  /\ dBroadcasts = 0 /\ dEstimates = 0

\* no scenario: the state of this part in the other specifications
DdsIdle ==
  /\ dMasters = << >> /\ dGlobal = TRUE /\ dChecks = TRUE
  /\ dTimer = Closure(<< >>, TRUE, TRUE)
  /\ dSimTime = 0 /\ dLog = << >> /\ dBatch = 0
  /\ dBroadcasts = 0 /\ dEstimates = 0

\* the calls made from the buttons: simulations and estimates
ButtonCalls == (dBroadcasts - (dSimTime \div 5)) + dEstimates

\* broadcastDDS as the given closure runs it
BroadcastDDS(c) ==
  LET events == DdsEvents(c.masters, c.global, c.checks)
  IN  /\ dBroadcasts' = dBroadcasts + 1
      /\ IF Len(events) > 0
         THEN dLog' = AppendLog(dLog, events) /\ dBatch' = Len(events)
         ELSE UNCHANGED <<dLog, dBatch>>

\* the interval callback: one second more, and a broadcast every fifth second
DdsIntervalTick ==
  /\ dSimTime < MaxDdsTime
  /\ dSimTime' = dSimTime + 1
  /\ IF dSimTime' % 5 = 0 THEN BroadcastDDS(dTimer)
     ELSE UNCHANGED <<dLog, dBatch, dBroadcasts>>
  /\ UNCHANGED <<dMasters, dGlobal, dChecks, dTimer, dEstimates>>
  /\ UNCHANGED outsideDds

\* simulatePulsesAtReceivers, from its button: its broadcast at the end
SimulateAndBroadcast ==
  /\ ButtonCalls < MaxDdsCalls
  /\ Len(dMasters) > 0
  /\ BroadcastDDS(Closure(dMasters, dGlobal, dChecks))
  /\ UNCHANGED <<dMasters, dGlobal, dChecks, dTimer, dSimTime, dEstimates>>
  /\ UNCHANGED outsideDds

\* the Global DDS checkbox; the effect of the interval runs again
SetEnableDDSGlobal ==
  /\ \E b \in BOOLEAN :
       /\ b # dGlobal
       /\ dGlobal' = b
       /\ dTimer' = Closure(dMasters, b, dChecks)
  /\ UNCHANGED <<dMasters, dChecks, dSimTime, dLog, dBatch, dBroadcasts, dEstimates>>
  /\ UNCHANGED outsideDds

\* the Integrity checks checkbox; the effect of the interval does not depend on it
SetIntegrityChecks ==
  /\ \E b \in BOOLEAN : b # dChecks /\ dChecks' = b
  /\ UNCHANGED <<dMasters, dGlobal, dTimer, dSimTime, dLog, dBatch, dBroadcasts, dEstimates>>
  /\ UNCHANGED outsideDds

\* editMasterConfig(label): the average and the DDS flag of the dialog
EditMasterDds ==
  /\ \E k \in DOMAIN dMasters : \E avg \in DdsAverages : \E ddsEn \in BOOLEAN :
       LET edited == [i \in DOMAIN dMasters |->
                        IF dMasters[i].label = dMasters[k].label
                        THEN [dMasters[i] EXCEPT !.diffEnabled = TRUE, !.avgMeters = avg,
                                                 !.ddsEnabled = ddsEn]
                        ELSE dMasters[i]]
       IN  /\ edited # dMasters
           /\ dMasters' = edited
           /\ dTimer' = Closure(edited, dGlobal, dChecks)
  /\ UNCHANGED <<dGlobal, dChecks, dSimTime, dLog, dBatch, dBroadcasts, dEstimates>>
  /\ UNCHANGED outsideDds

\* estimateReceiver, as far as logEvents goes: one INTEGRITY_ALARM appended when the checks
\* are on and the check value of the estimate exceeds the threshold
EstimateAndLog ==
  /\ ButtonCalls < MaxDdsCalls
  /\ Len(dMasters) > 0
  /\ dEstimates' = dEstimates + 1
  /\ \E exceeds \in BOOLEAN :
       IF dChecks /\ exceeds
       THEN /\ dLog' = AppendLog(dLog, << [type |-> "INTEGRITY_ALARM",
                                           station |-> dMasters[1].label] >>)
            /\ dBatch' = 1
       ELSE UNCHANGED <<dLog, dBatch>>
  /\ UNCHANGED <<dMasters, dGlobal, dChecks, dTimer, dSimTime, dBroadcasts>>
  /\ UNCHANGED outsideDds

\* clearLogs
ClearLogs ==
  /\ dLog # << >>
  /\ dLog' = << >> /\ dBatch' = 0
  /\ UNCHANGED <<dMasters, dGlobal, dChecks, dTimer, dSimTime, dBroadcasts, dEstimates>>
  /\ UNCHANGED outsideDds

NextDds ==
  \/ DdsIntervalTick
  \/ SimulateAndBroadcast
  \/ SetEnableDDSGlobal
  \/ SetIntegrityChecks
  \/ EditMasterDds
  \/ EstimateAndLog
  \/ ClearLogs

(***************************************************************************)
(* sampleAsfRastersForMasters of Eloran.jsx and the sampleBatch handler of *)
(* asfWorker.js.  A raster is held by the master whose code it was sampled *)
(* from.  The kinds of asfMap: "none" is no function, "ok" a function that *)
(* returns, "throws" one that throws in every cell, "syntax" one whose     *)
(* text new Function rejects in the worker (a native or bound function),   *)
(* "slow" one whose batch takes                                            *)
(* more than the 10 s of the timer, "hangs" one that never returns.        *)
(***************************************************************************)
MaxSampled == 2

AsfKinds == {"none", "ok", "throws", "syntax", "slow", "hangs"}
NullRaster == [source |-> 0]

\* the masters of the lists sampled: M1, M2, ... with every kind of asfMap
SampledLists ==
  UNION { [1..n -> AsfKinds] : n \in 1..MaxSampled }

SamplingInit ==
  /\ qMasters \in SampledLists
  /\ qIndex = 1 /\ qWaiting = FALSE
  /\ qInbox = << >> /\ qOutbox = << >>
  /\ qRasters = [i \in DOMAIN qMasters |-> NullRaster]
  /\ qTimedOut = {} /\ qDone = FALSE

\* no sampling: the state of this part in the other specifications
SamplingIdle ==
  /\ qMasters = << >> /\ qIndex = 1 /\ qWaiting = FALSE
  /\ qInbox = << >> /\ qOutbox = << >> /\ qRasters = << >>
  /\ qTimedOut = {} /\ qDone = TRUE

\* the loop up to its next await: masters without a function are passed over, the next one
\* gets its listener and its sampleBatch message, and after the last rasters is returned
SampleNextMaster ==
  /\ ~qDone /\ ~qWaiting
  /\ LET rest == { i \in DOMAIN qMasters : i >= qIndex /\ qMasters[i] # "none" }
     IN  IF rest = {}
         THEN /\ qDone' = TRUE
              /\ qIndex' = Len(qMasters) + 1
              /\ UNCHANGED <<qWaiting, qInbox>>
         ELSE /\ qIndex' = MinOf(rest)
              /\ qWaiting' = TRUE
              /\ qInbox' = Append(qInbox, MinOf(rest))
              /\ UNCHANGED qDone
  /\ UNCHANGED <<qMasters, qOutbox, qRasters, qTimedOut>>
  /\ UNCHANGED outsideSampling

\* self.onmessage of asfWorker.js for a message of type 'sampleBatch': an error when the
\* function cannot be made, else the buffer of the values (0 in a cell where it throws)
AsfWorkerSampleBatch ==
  /\ qInbox # << >>
  /\ qMasters[Head(qInbox)] # "hangs"
  /\ qInbox' = Tail(qInbox)
  /\ qOutbox' = Append(qOutbox,
                       IF qMasters[Head(qInbox)] = "syntax"
                       THEN [type |-> "error", source |-> Head(qInbox)]
                       ELSE [type |-> "result", source |-> Head(qInbox)])
  /\ UNCHANGED <<qMasters, qIndex, qWaiting, qRasters, qTimedOut, qDone>>
  /\ UNCHANGED outsideSampling

\* a message of the worker reaches the main thread: the listener registered, if any, settles
\* its call with it
SampleMessage ==
  /\ qOutbox # << >>
  /\ qOutbox' = Tail(qOutbox)
  /\ IF qWaiting
     THEN /\ qRasters' = [qRasters EXCEPT ![qIndex] =
                            IF Head(qOutbox).type = "result"
                            THEN [source |-> Head(qOutbox).source] ELSE NullRaster]
          /\ qWaiting' = FALSE
          /\ qIndex' = qIndex + 1
     ELSE UNCHANGED <<qRasters, qWaiting, qIndex>>
  /\ UNCHANGED <<qMasters, qInbox, qTimedOut, qDone>>
  /\ UNCHANGED outsideSampling

\* the timer of the current call fires after 10 s, the worker being held by a batch that
\* takes longer: the listener is removed and the raster of the master stays null
SampleTimeout ==
  /\ qWaiting
  /\ qInbox # << >> /\ qMasters[Head(qInbox)] \in {"slow", "hangs"}
  /\ qWaiting' = FALSE
  /\ qTimedOut' = qTimedOut \cup {qIndex}
  /\ qIndex' = qIndex + 1
  /\ UNCHANGED <<qMasters, qInbox, qOutbox, qRasters, qDone>>
  /\ UNCHANGED outsideSampling

NextSampling ==
  \/ SampleNextMaster
  \/ AsfWorkerSampleBatch
  \/ SampleMessage
  \/ SampleTimeout

\* the parts after the contour levels, with no scenario
TailIdle == DdsIdle /\ SamplingIdle

vars == <<sessVars, gridVars, solverVars, calVars, laterVars>>

\* the parts that follow the calibration part, with no scenario
LaterIdle == EstIdle /\ StationsIdle /\ AsfIdle /\ ContourIdle /\ LevelIdle /\ TailIdle


Init == SessInit /\ GridIdle /\ SolverIdle /\ CalIdle /\ LaterIdle

Next ==
  \/ Tick
  \/ AddStation
  \/ DeleteStation
  \/ EditAsf
  \/ CsvImport
  \/ SimulatePulses
  \/ EstimateReceiver
  \/ AutoCalibrate
  \/ ResetAll
  \/ ComputeGridEloran
  \/ SamplingDone
  \/ ComputeGridLoranc
  \/ SendCancel
  \/ WorkerDispatch
  \/ WorkerTdoa
  \/ WorkerContours
  \/ MainReceive

Spec == Init /\ [][Next]_vars

\* The component's own operations, with the worker threads left out (they share no
\* memory with the component and never touch the clock).
NextClock ==
  \/ Tick
  \/ AddStation
  \/ DeleteStation
  \/ EditAsf
  \/ CsvImport
  \/ SimulatePulses
  \/ EstimateReceiver
  \/ AutoCalibrate
  \/ ResetAll
  \/ ComputeGridEloran
  \/ SamplingDone
  \/ ComputeGridLoranc

SpecClock == Init /\ [][NextClock]_vars

\* The grid computations on every scenario of the catalogue.
InitGrid == SessInit /\ impl = "Eloran" /\ GridInit /\ SolverIdle /\ CalIdle /\ LaterIdle
SpecGrid == InitGrid /\ [][NextGrid]_vars

\* The position solver of either component on every scenario.
InitSolver == SessInit /\ GridIdle /\ SolverInit /\ CalIdle /\ LaterIdle
SpecSolver == InitSolver /\ [][NextSolver]_vars
\* The same, with the solver running on: a call is synchronous and is not interrupted.
SpecSolverFair == SpecSolver /\ WF_vars(NextSolver)

\* Pulse simulation and calibration in Eloran on every scenario.
InitCal == SessInit /\ impl = "Eloran" /\ GridIdle /\ SolverIdle /\ CalInit /\ LaterIdle
SpecCal == InitCal /\ [][NextCal]_vars

\* The other parts with no scenario, for the specifications of the parts that follow.
EarlierIdle == SessInit /\ GridIdle /\ SolverIdle /\ CalIdle

\* Position estimates and the event log in Eloran on every scenario.
InitEst == EarlierIdle /\ impl = "Eloran" /\ EstInit /\ StationsIdle /\ AsfIdle /\ ContourIdle /\ LevelIdle /\ TailIdle
SpecEst == InitEst /\ [][NextEst]_vars

\* The station collections of the three components.
InitStations == EarlierIdle /\ EstIdle /\ StationsInit /\ AsfIdle /\ ContourIdle /\ LevelIdle /\ TailIdle
SpecStations == InitStations /\ [][NextStations]_vars

\* The assignment of ASF codes to masters in Eloran.
InitAsf == EarlierIdle /\ impl = "Eloran" /\ EstIdle /\ StationsIdle /\ AsfInit /\ ContourIdle /\ LevelIdle /\ TailIdle
SpecAsf == InitAsf /\ [][NextAsf]_vars

\* The contour extractors on every grid of the catalogue.
InitContour ==
  EarlierIdle /\ impl = "Eloran" /\ EstIdle /\ StationsIdle /\ AsfIdle /\ ContourInit /\ LevelIdle
    /\ TailIdle
SpecContour == InitContour /\ [][NextContour]_vars

\* The contour levels of the two components and of the workers.
InitLevel ==
  EarlierIdle /\ impl = "Eloran" /\ EstIdle /\ StationsIdle /\ AsfIdle /\ ContourIdle /\ LevelInit
    /\ TailIdle
SpecLevel == InitLevel /\ [][NextLevel]_vars

\* The parts before the DDS broadcasts, with no scenario.
BeforeDdsIdle ==
  EarlierIdle /\ EstIdle /\ StationsIdle /\ AsfIdle /\ ContourIdle /\ LevelIdle

\* DDS broadcasts and the event log in Eloran.
InitDds == BeforeDdsIdle /\ impl = "Eloran" /\ DdsInit /\ SamplingIdle
SpecDds == InitDds /\ [][NextDds]_vars

\* The sampling of ASF rasters on the shared ASF worker in Eloran.
InitSampling == BeforeDdsIdle /\ impl = "Eloran" /\ DdsIdle /\ SamplingInit
SpecSampling == InitSampling /\ [][NextSampling]_vars

(***************************************************************************)
(* C1: the simulated time                                                  *)
(***************************************************************************)

\* C1 (as stated): no operation ever makes the simulation clock smaller than a value
\* it previously held.
ClockNeverRolledBack == simTime >= clockHigh

\* C1 (amended): every operation other than resetAll leaves the simulation clock
\* unchanged or larger; only resetAll lowers it, and it sets it to 0.
ClockLoweredOnlyByReset == [][simTime' < simTime => (ResetAll /\ simTime' = 0)]_vars

\* C1 witness: the clock has advanced by two ticks and a reset has put it back to 0
\* while other operations have run
ClockResetAfterTicks == simTime = 0 /\ clockHigh >= 2 /\ nextReq > 0

(***************************************************************************)
(* C2, C3: the grid worker protocol                                        *)
(***************************************************************************)

\* C2: for a request that was being processed when a cancel was sent, the worker
\* posts no grid result: whatever it answers for that request is 'cancelled' (or the
\* report of a failure).
CancelHonoured ==
  \A a \in answered : a.req \in cancelDuring => a.cmd \in {"cancelled", "error"}

\* C3: the grid status does not stay 'computing': once the worker is idle, no message
\* is in flight either way and no computeGrid call is suspended, nothing is left that
\* could change the status, and it is 'ready' or 'error'.
ComputingEnds ==
  (wpc = "idle" /\ workerInbox = <<>> /\ mainInbox = <<>> /\ sampling = {})
    => gridStatus # "computing"


(***************************************************************************)
(* Claims about the grid computation (specification SpecGrid).              *)
(***************************************************************************)
BoundsComputed == gpc \in {"bounds", "worker", "fallback", "second", "exchanged", "done"}
WorkerComputed == gpc \in {"worker", "fallback", "second", "exchanged", "done"}
FallbackComputed == gpc \in {"fallback", "second", "exchanged", "done"}
SecondComputed == gpc \in {"second", "exchanged", "done"}

\* C4: for the request Eloran's computeGrid builds (stations carrying x/y and lat/lng),
\* the synchronous fallback yields the same rasters and the same contours as the worker.
FallbackEqualsWorker ==
  (FallbackComputed /\ gCarry = "both") =>
    /\ gFallback.maps = gWorker.maps
    /\ gFallback.contours = gWorker.contours

\* a raster has GridN * GridN entries, every one a finite number
RasterFinite(data) ==
  /\ Len(data) = GridN * GridN
  /\ \A idx \in DOMAIN data : IsNum(data[idx])

\* C5: every raster of gridWorker.js, of the fallback and of the Loranc worker has
\* nx * ny entries, each finite, whether the stations carry lat/lng, x/y or both.
RastersFinite ==
  /\ WorkerComputed => \A k \in DOMAIN gWorker.maps : RasterFinite(gWorker.maps[k].data)
  /\ FallbackComputed => \A k \in DOMAIN gFallback.maps : RasterFinite(gFallback.maps[k].data)
  /\ gpc = "done" => \A k \in DOMAIN gLoranc : RasterFinite(gLoranc[k].data)

\* the raster b is the negation of the raster a, cell by cell
Negated(a, b) == \A idx \in Cells : b[idx] = Neg(a[idx])

\* C6: with a master and a slave exchanged (neither with an asfMap of its own), the raster
\* of their pair is the negation of the raster before, in gridWorker.js and in the
\* Loranc worker.
TdoaAntisymmetric ==
  (gpc = "done" /\ gSwap.plain) =>
    LET k == MapIndex(gSwap.mi, gSwap.si, Len(gSlaves)) IN
      /\ Negated(gWorker.maps[k].data, gSwapWorker.maps[k].data)
      /\ Negated(gLoranc[k].data, gSwapLoranc[k].data)

GridBoundsPositive ==
  BoundsComputed =>
    /\ gBounds.maxX > gBounds.minX /\ gBounds.maxY > gBounds.minY
    /\ gBoundsL.maxX > gBoundsL.minX /\ gBoundsL.maxY > gBoundsL.minY

(***************************************************************************)
(* Claims about the position solver (specification SpecSolver).             *)
(***************************************************************************)
\* C9: from noise-free observations of two or more slaves with the right reference
\* master, the solver returns a position within 1 m of the receiver's true position,
\* whether or not the initial guess is the true position.
SolverWithinOneMetre ==
  spc = "done" =>
    /\ IsNum(sOut.lat) /\ IsNum(sOut.lng)
    /\ Haversine(sOut, sTruth) <= 1

(***************************************************************************)
(* Claims about calibration (specification SpecCal).                        *)
(***************************************************************************)
\* the masters that have an arrival, not a skywave, in simulationResults
Observed(mi) ==
  \E ri \in DOMAIN cResults : \E k \in DOMAIN cResults[ri].arrivals :
    /\ cResults[ri].arrivals[k].station = cMasters[mi].label
    /\ cResults[ri].arrivals[k].type = "master"

\* C10: with zero jitter, one autoCalibrate pass on the arrivals simulated at the current
\* time sets the correction of every observed master to the bias its arrivals carry.
CalibrationRecoversBias ==
  (cpc = "calibrated" /\ cJitterMs = 0 /\ cSimulatedAt = cSimTime) =>
    \A mi \in DOMAIN cMasters :
      Observed(mi) => (cMasters[mi].diffEnabled /\ cMasters[mi].avgMeters = cInjected[mi])

\* an autoCalibrate pass has just run
CalibrationStep == cpc' \in {"calibrated", "recalibrated"} /\ cpc' # cpc

\* C24: autoCalibrate changes only the differential correction of masters that have an
\* attributed arrival, not a skywave, in the simulation results: the masters without one,
\* the slaves, the receivers, the simulation clock, the results and every other field of
\* every master are as they were.
CalibrationTouchesObservedOnly ==
  [][CalibrationStep =>
       /\ DOMAIN cMasters' = DOMAIN cMasters
       /\ \A mi \in DOMAIN cMasters :
            /\ ~Observed(mi) => cMasters'[mi] = cMasters[mi]
            /\ cMasters'[mi] = [cMasters[mi] EXCEPT !.diffEnabled = cMasters'[mi].diffEnabled,
                                                    !.avgMeters = cMasters'[mi].avgMeters]
       /\ UNCHANGED <<cSlaves, cReceivers, cSimTime, cResults>>]_vars

\* a pass over results in which one master was observed and another was not
ObservedAndUnobserved ==
  /\ cpc = "calibrated"
  /\ \E a \in DOMAIN cMasters : \E b \in DOMAIN cMasters :
       Observed(a) /\ ~Observed(b)

\* C30: autoCalibrate run twice in a row on the same simulation results, station positions
\* and simulated time leaves every master with the correction the first run gave it.
CalibrationIdempotent ==
  [][(cpc = "calibrated" /\ cpc' = "recalibrated") => cMasters' = cMasters]_vars

\* a second pass over results that changed a correction in the first
CalibratedTwice ==
  /\ cpc = "recalibrated"
  /\ \E mi \in DOMAIN cMasters : Observed(mi) /\ cInjected[mi] # 0

\* the group-repetition interval configured for a station, ms: the one of the edit dialog,
\* else the one of its placement or of the gri column of its import, else the default
ConfiguredGri(st) ==
  IF st.griMs # Undef THEN st.griMs ELSE IF st.gri # Undef THEN st.gri ELSE 1000

\* (floor(t / GRI) + k) * GRI at the configured interval, ms
ConfiguredEmission(st, t, k) == (((t * 1000) \div ConfiguredGri(st)) + k) * ConfiguredGri(st)

\* the instant the simulator emits at, less the phase, ms: (baseK + k) * griSec
SimulatedEmission(st, t, k) == (BaseK(st, t) + k) * GriMs(st)

\* C25: the emission instants the pulse simulator uses for a station are
\* (floor(t / GRI) + k) * GRI + phase for k in {-1, 0, 1}, with the interval and the phase
\* configured for the station at its placement, by the gri column of its import or in the
\* edit dialog.
EmissionsAtConfiguredGri ==
  cpc = "simulated" =>
    \A k \in {-1, 0, 1} :
      /\ \A i \in DOMAIN cMasters :
           SimulatedEmission(cMasters[i], cSimulatedAt, k)
             = ConfiguredEmission(cMasters[i], cSimulatedAt, k)
      /\ \A i \in DOMAIN cSlaves :
           SimulatedEmission(cSlaves[i], cSimulatedAt, k)
             = ConfiguredEmission(cSlaves[i], cSimulatedAt, k)

(***************************************************************************)
(* C11: the integrity alarm                                                *)
(***************************************************************************)

RowInvalid(row) ==
  RoleOf(row) \notin Roles \/ ~IsNumericText(row.lat) \/ ~IsNumericText(row.lng)

\* the indices of the rows of a table that satisfy P, ascending
RowsWhere(rows, P(_)) ==
  LET S == { i \in DOMAIN rows : P(rows[i]) }
  IN  [k \in 1..Cardinality(S) |-> Nth(S, k)]

\* the number of valid rows of a role
ValidOfRole(rows, role) ==
  Cardinality({ i \in DOMAIN rows : ~RowInvalid(rows[i]) /\ RoleOf(rows[i]) = role })

\* C12: in an import every row with an invalid role or a non-numeric lat or lng adds exactly
\* one error naming its 1-based index and nothing else; every other row adds exactly one
\* station of its role and advances that role's counter, also after a rejected row; the
\* rows applied and the rows rejected add up to the number of rows.
ImportRejectsExactlyInvalidRows ==
  [][kImports' = kImports + 1 =>
       LET rows == kTable' IN
       /\ [j \in DOMAIN kErrors' |-> kErrors'[j].row] = RowsWhere(rows, RowInvalid)
       /\ Len(kMasters') = Len(kMasters) + ValidOfRole(rows, "master")
       /\ Len(kSlaves') = Len(kSlaves) + ValidOfRole(rows, "slave")
       /\ Len(kReceivers') = Len(kReceivers) + ValidOfRole(rows, "receiver")
       /\ SubSeq(kMasters', 1, Len(kMasters)) = kMasters
       /\ SubSeq(kSlaves', 1, Len(kSlaves)) = kSlaves
       /\ SubSeq(kReceivers', 1, Len(kReceivers)) = kReceivers
       /\ \A role \in Roles : kCounter'[role] = kCounter[role] + ValidOfRole(rows, role)
       /\ kValidRows' + Len(kErrors') = Len(rows)]_vars

\* every station of the three collections, with the collection it is in
AllStations ==
  { [role |-> "master", i |-> i, label |-> kMasters[i].label] : i \in DOMAIN kMasters }
    \cup { [role |-> "slave", i |-> i, label |-> kSlaves[i].label] : i \in DOMAIN kSlaves }
    \cup { [role |-> "receiver", i |-> i, label |-> kReceivers[i].label] : i \in DOMAIN kReceivers }

\* C13: after any sequence of placements, imports, deletions and resets no two stations
\* carry the same label.
LabelsUnique ==
  \A a \in AllStations : \A b \in AllStations : a.label = b.label => a = b

(***************************************************************************)
(* C14: the arrivals of a simulation result                                *)
(***************************************************************************)

\* the arrival lies in the window of the simulation that made it
InSimulationWindow(a) ==
  /\ a.arrivalSec >= SecToLight(cSimulatedAt)
  /\ a.arrivalSec <= SecToLight(cSimulatedAt) + TotalDuration

\* C14: every arrival kept in a receiver's result, skywave arrivals included, lies in the
\* window [simTime, simTime + totalDuration], and each receiver's list is sorted by
\* non-decreasing arrival time.
ArrivalsInWindowAndSorted ==
  \A ri \in DOMAIN cResults :
    LET as == cResults[ri].arrivals IN
    /\ \A i \in DOMAIN as : InSimulationWindow(as[i])
    /\ \A i \in DOMAIN as : \A j \in DOMAIN as : i < j => as[i].arrivalSec <= as[j].arrivalSec

(***************************************************************************)
(* C15: the identifiers of an assigned ASF code                            *)
(***************************************************************************)

\* C15: a master's ASF is a code whose every identifier is in the allow-list (the math
\* functions and the parameters lat and lng); a code referencing any other identifier is
\* never assigned.
AsfOnlyFromAllowList ==
  \A i \in DOMAIN aMasters :
    aMasters[i].asfMap # NoAsf => aMasters[i].asfMap \subseteq AllowList

(***************************************************************************)
(* Claims about contour extraction (specification SpecContour).             *)
(***************************************************************************)
\* whether the corner values of edge e of cell c lie on opposite sides of the level
Straddles(c, e) == (EdgeFrom(tGrid, c, e).v >= tLevel) # (EdgeTo(tGrid, c, e).v >= tLevel)

\* the ends of emitted segments that cell c has on its edge e
EndsOn(c, e) ==
  { en \in (DOMAIN tSegments) \X {0, 1} :
      /\ tSegments[en[1]].cell = c
      /\ (IF en[2] = 0 THEN tSegments[en[1]].ea ELSE tSegments[en[1]].eb) = e }

\* the edges each segment of cell c joins
PairsOf(c) == { {tSegments[k].ea, tSegments[k].eb} : k \in { n \in DOMAIN tSegments : tSegments[n].cell = c } }

\* the pairing that keeps the side of the cell centre connected: in case 5 with the centre
\* at or above the level, and in case 10 with the centre below it, the segments cut off
\* the corners v10 and v01; otherwise the corners v00 and v11
ConsistentPairs(c) ==
  IF (IdxCase(tGrid, c, tLevel) = 5) = CenterAtLeast(tGrid, c, tLevel)
  THEN {{0, 1}, {2, 3}}
  ELSE {{0, 3}, {1, 2}}

\* C16: after marching-squares extraction (Loranc.jsx, gridWorker.js), for every cell,
\* every edge whose corner values lie on opposite sides of the level is the end of exactly
\* one emitted segment and no segment ends on any other edge; in the cases 5 and 10 two
\* segments are emitted, paired according to whether the centre average is >= the level.
CrossedEdgesEndOneSegment ==
  (tDone /\ tVariant \in {"Loranc", "gridWorker"}) =>
    \A c \in ContourCells :
      /\ \A e \in 0..3 : Cardinality(EndsOn(c, e)) = (IF Straddles(c, e) THEN 1 ELSE 0)
      /\ IdxCase(tGrid, c, tLevel) \in {5, 10} =>
           /\ Cardinality({ n \in DOMAIN tSegments : tSegments[n].cell = c }) = 2
           /\ PairsOf(c) = ConsistentPairs(c)

\* whether p is on edge e of cell c at the linearly interpolated position of the level
\* between the corner values, to the unit
InterpolatedOn(p, c, e) ==
  LET a == EdgeFrom(tGrid, c, e)
      b == EdgeTo(tGrid, c, e)
      den == b.v - a.v
      at(u, ua, ub) == Abs((u - ua) * den - (tLevel - a.v) * (ub - ua)) < Abs(den)
  IN  /\ Min(a.x, b.x) <= p[1] /\ p[1] <= Max(a.x, b.x)
      /\ Min(a.y, b.y) <= p[2] /\ p[2] <= Max(a.y, b.y)
      /\ at(p[1], a.x, b.x)
      /\ at(p[2], a.y, b.y)

\* the points emitted: the ends of the segments and the points of the polylines
EmittedPoints ==
  { tSegments[k].a : k \in DOMAIN tSegments } \cup { tSegments[k].b : k \in DOMAIN tSegments }
    \cup UNION { Range(tPolylines[k].points) : k \in DOMAIN tPolylines }

\* what the interpolation of the extractor gives on edge e of cell c
InterpOnEdge(c, e) ==
  LET a == EdgeFrom(tGrid, c, e)
      b == EdgeTo(tGrid, c, e)
  IN  IF tVariant = "Loranc" THEN ComputeEdgePoint(tGrid, c, e, tLevel)
      ELSE << Interp(a.x, a.v, b.x, b.v), Interp(a.y, a.v, b.y, b.v) >>

\* C17: every contour point emitted (Loranc.jsx, gridWorker.js) lies on an edge of a cell
\* whose two corner values straddle the level, at the linearly interpolated position of
\* the level between the two corners (so between the corners: t within [0, 1]); on an edge
\* whose corner values are equal the interpolation gives the midpoint.
PointsInterpolatedOnCrossedEdges ==
  (tDone /\ tVariant \in {"Loranc", "gridWorker"}) =>
    /\ \A p \in EmittedPoints :
         \E c \in ContourCells, e \in 0..3 : Straddles(c, e) /\ InterpolatedOn(p, c, e)
    /\ \A c \in ContourCells, e \in 0..3 :
         EdgeFrom(tGrid, c, e).v = EdgeTo(tGrid, c, e).v =>
           InterpOnEdge(c, e) =
             << (EdgeFrom(tGrid, c, e).x + EdgeTo(tGrid, c, e).x) \div 2,
                (EdgeFrom(tGrid, c, e).y + EdgeTo(tGrid, c, e).y) \div 2 >>

\* C17 witness: an extraction by Loranc.jsx at level 16 has returned a polyline of three
\* or more points, none of them at a corner or at the middle of an edge
InterpolatedPolyline ==
  /\ tDone /\ tVariant = "Loranc" /\ tLevel = 16
  /\ \E k \in DOMAIN tPolylines :
       /\ Len(tPolylines[k].points) >= 3
       /\ \A p \in Range(tPolylines[k].points) :
            \E c \in ContourCells, e \in 0..3 :
              /\ Straddles(c, e) /\ InterpolatedOn(p, c, e)
              /\ p # << EdgeFrom(tGrid, c, e).x, EdgeFrom(tGrid, c, e).y >>
              /\ p # << EdgeTo(tGrid, c, e).x, EdgeTo(tGrid, c, e).y >>
              /\ 2 * p[1] # EdgeFrom(tGrid, c, e).x + EdgeTo(tGrid, c, e).x
                   \/ 2 * p[2] # EdgeFrom(tGrid, c, e).y + EdgeTo(tGrid, c, e).y

\* the segment ends that are at point p
EndsAt(p) ==
  { en \in (DOMAIN tSegments) \X {0, 1} : PointAt(tSegments, en[1], en[2]) = p }

\* the places where segment si occurs in the polylines
UsesOf(si) ==
  { u \in (DOMAIN tPolylines) \X (DOMAIN tSegments) :
      u[2] \in DOMAIN tPolylines[u[1]].segs /\ tPolylines[u[1]].segs[u[2]] = si }

\* a closed loop ends where it starts
Closed(poly) == poly.points[1] = poly.points[Len(poly.points)]

\* every segment is used in exactly one polyline
SegmentsPartitioned == \A si \in DOMAIN tSegments : Cardinality(UsesOf(si)) = 1

\* consecutive points of a polyline are the two ends of one segment
StepsAreSegments ==
  \A k \in DOMAIN tPolylines :
    \A n \in 1..(Len(tPolylines[k].points) - 1) :
      \E si \in DOMAIN tSegments :
        {tPolylines[k].points[n], tPolylines[k].points[n + 1]} = {tSegments[si].a, tSegments[si].b}

\* an open chain starts at a point where one segment ends, and no closed loop comes
\* before it
OpenChainsFirst ==
  \A k \in DOMAIN tPolylines :
    ~Closed(tPolylines[k]) =>
      /\ Cardinality(EndsAt(tPolylines[k].points[1])) = 1
      /\ \A j \in 1..(k - 1) : ~Closed(tPolylines[j])

\* two segments with a common end are in the same polyline
JoinedSegmentsTogether ==
  \A s1, s2 \in DOMAIN tSegments :
    {tSegments[s1].a, tSegments[s1].b} \cap {tSegments[s2].a, tSegments[s2].b} # {} =>
      \E k \in DOMAIN tPolylines : {s1, s2} \subseteq Range(tPolylines[k].segs)

\* C18: stitching (Loranc.jsx, part_007) partitions the segments of a level into polylines:
\* every segment is used in exactly one polyline, consecutive points of a polyline are the
\* two ends of one segment, an open chain starts at an end of degree 1 and all open chains
\* come before any closed loop, and two segments whose ends coincide are in the same
\* polyline.
StitchingPartitionsSegments ==
  (tDone /\ tVariant \in {"Loranc", "part_007"}) =>
    /\ SegmentsPartitioned
    /\ StepsAreSegments
    /\ OpenChainsFirst
    /\ JoinedSegmentsTogether

(***************************************************************************)
(* C19: the ASF rasters of a grid computation (specification SpecGrid).     *)
(***************************************************************************)
\* the value of a cell of the pair mi, si when the raster of master mi goes into the
\* arrival of master mi only, and the slave's arrival takes the slave's own asfMeters
CellWithOwnAsf(req, mi, si, idx) ==
  LET m == req.mMeters[mi]
      s == req.sMeters[si]
      x == CellX(req.gridBounds, CellI(idx - 1))
      y == CellY(req.gridBounds, CellJ(idx - 1))
      asfM == IF req.asfRasters[mi] # << >> THEN OrZero(req.asfRasters[mi][idx])
              ELSE IF m.asfMeters # Undef THEN OrZero(m.asfMeters) ELSE 0
      asfS == IF s.asfMeters # Undef THEN OrZero(s.asfMeters) ELSE 0
      arrivalM == WorkerArrival(m, WorkerDist(m, x, y), asfM, req.simTimeSec)
      arrivalS == WorkerArrival(s, WorkerDist(s, x, y), asfS, req.simTimeSec)
  IN  Sub(Sub(arrivalS, arrivalM), PairConstSec(m, s, req.simTimeSec))

\* C19: in the grid gridWorker.js computes, the ASF raster supplied for master i goes
\* into the arrival time of master i only; the arrival time of a slave uses the slave's
\* own ASF source and no raster sampled for a master.
RasterOnlyForItsMaster ==
  WorkerComputed =>
    LET req == WorkerRequest(gMasters, gSlaves, gBounds, gSimTime, gCarry)
    IN  \A k \in DOMAIN gWorker.maps : \A idx \in Cells :
          gWorker.maps[k].data[idx]
            = CellWithOwnAsf(req, gWorker.maps[k].masterIndex, gWorker.maps[k].slaveIndex, idx)

(***************************************************************************)
(* C20: the contour levels (specification SpecLevel).                       *)
(***************************************************************************)
\* the largest distance of a master to a slave, as the component projects them
MaxBaseline ==
  IF vVariant = "Eloran"
  THEN MaxDist([k \in DOMAIN vMasters |-> MMeters(vMasters[k])],
               [k \in DOMAIN vSlaves |-> SMeters(vSlaves[k])])
  ELSE MaxDist([k \in DOMAIN vMasters |-> LorancMeters(vMasters[k])],
               [k \in DOMAIN vSlaves |-> LorancMeters(vSlaves[k])])

\* levels is k * step for k = -n..n with step = max(minStep, MaxBaseline / N), to the metre
\* per step
AutoSelected(levels, minStep, n, N) ==
  /\ Len(levels) = 2 * n + 1
  /\ \A i \in DOMAIN levels :
       Abs(N * levels[i] - (i - n - 1) * Max(N * minStep, MaxBaseline)) <= N * Abs(i - n - 1)

\* C20: when no explicit levels are supplied, the contours are extracted at the levels
\* k * step for k = -n..n (an odd number of levels, symmetric about zero, zero among them),
\* with step = max(minStep, maxBaseline / N) and maxBaseline the largest distance of a master
\* to a slave: minStep 100, n 10, N 20 in Eloran.jsx and minStep 200, n 8, N 16 in Loranc.jsx.
ContoursAtAutoLevels ==
  (vpc = "done" /\ (vVariant = "worker" => vRequest = << >>)) =>
    IF vVariant = "Eloran" THEN AutoSelected(vContours, 100, 10, 20)
    ELSE AutoSelected(vContours, 200, 8, 16)

(***************************************************************************)
(* C21, C22: the solver's loop and what it returns (SpecSolverFair).        *)
(***************************************************************************)
\* the normal equations a pass of the loop builds at the current estimate
PassRows == [i \in DOMAIN sPairs |-> SolverRow(sPairs[i], sx0, sy0)]
PassEquations == NormalEquations(PassRows)

\* |det| < 1e-12 for the determinant of the pass
NumericallySingular ==
  LET d == Det(PassEquations) IN IsNum(d) /\ DetRatio(d) < DetScale

\* the step of the pass has a norm below 1e-6
StepNormBelow ==
  LET dx == StepX(PassEquations)
      dy == StepY(PassEquations)
  IN  IsNum(dx) /\ IsNum(dy) /\ Hypot(dx, dy) < 1

\* the estimate after the update of the pass
UpdateApplied ==
  /\ sx0' = Add(sx0, StepX(PassEquations))
  /\ sy0' = Add(sy0, StepY(PassEquations))

\* what a step of the loop does, by the state it is taken in
LoopStep ==
  spc = "loop" =>
    IF sIter >= 30 THEN spc' = "return" /\ sx0' = sx0 /\ sy0' = sy0
    ELSE IF NumericallySingular THEN spc' = "return" /\ sx0' = sx0 /\ sy0' = sy0
    ELSE IF StepNormBelow THEN spc' = "return" /\ UpdateApplied
    ELSE spc' = "loop" /\ sIter' = sIter + 1 /\ UpdateApplied

\* the return after the loop: the last estimate, in degrees
ReturnStep ==
  spc = "return" =>
    spc' = "done" /\ sOut'.lat = ArcInv(sy0) /\ sOut'.lng = ArcInv(sx0)

\* C21: solvePositionFromTDOA ends on every input, after at most 30 passes that ran to
\* their end; a pass whose determinant is numerically singular ends the loop with the
\* estimate as it was, a pass whose step norm is below the threshold ends it with the
\* update applied, and the call returns the last estimate in every case.
SolverEndsWithLastIterate ==
  /\ [](sIter <= 30)
  /\ [][LoopStep /\ ReturnStep]_vars
  /\ <>(spc = "done")

\* a call that ran all its passes and returned
ReturnedAtIterationCap == spc = "done" /\ sIter = 30

\* the residual sum of squares divided by max(1, count - 2)
ResidualVariance(res) ==
  Div(SumSeq([i \in DOMAIN res |-> Mul(res[i], res[i])]), Max(1, Len(res) - 2))

\* 3 sqrt(lambda1) of the covariance sigma2 * inv(jtj), zero when |det| is not above 1e-12
HplOfVariance(jtj, sigma2) ==
  LET detF == Det(jtj)
      k == SolverScale * SolverScale
      cov == IF DetAbove(detF)
             THEN [c11 |-> Div(Mul(Mul(sigma2, jtj.a22), k), detF),
                   c12 |-> Div(Mul(Mul(sigma2, Neg(jtj.a12)), k), detF),
                   c22 |-> Div(Mul(Mul(sigma2, jtj.a11), k), detF)]
             ELSE [c11 |-> 0, c12 |-> 0, c22 |-> 0]
      trace == cov.c11 + cov.c22
      detC == cov.c11 * cov.c22 - cov.c12 * cov.c12
      tm == ISqrt(Max(0, ((trace * trace) \div 4) - detC))
  IN  3 * ISqrt(Max(0, (trace \div 2) + tm))

\* a pass that was executed leaves its matrix and its residuals as the final ones
FinalsFromExecutedPass ==
  (spc = "loop" /\ sIter < 30) =>
    /\ sJTJ' = [a11 |-> PassEquations.a11, a12 |-> PassEquations.a12, a22 |-> PassEquations.a22]
    /\ sRes' = [i \in DOMAIN PassRows |-> PassRows[i].ri]

\* the protection level returned is the one of the final matrix and residuals
HplFromFinals ==
  (spc = "return" /\ impl = "Eloran") =>
    sOut'.hplMeters = HplOfVariance(sJTJ, ResidualVariance(sRes))

\* C22: the variance, the covariance and the protection level returned are computed from the
\* normal-equation matrix and the residuals of the last pass the loop executed, whether the
\* loop ended at the cap, by the step norm or by the singular determinant, and the variance
\* is the residual sum of squares divided by max(1, count - 2).
FinalsFromLastPass == [][FinalsFromExecutedPass /\ HplFromFinals]_vars

(***************************************************************************)
(* C23, C29: DDS broadcasts and the event log (specification SpecDds).      *)
(***************************************************************************)
\* the events a broadcast owes at the moment it is made: one for every master whose DDS flag
\* is on, none with global DDS off, with the master's correction and the integrity setting
EventsOwed ==
  IF ~dGlobal THEN << >>
  ELSE LET on == { i \in DOMAIN dMasters : dMasters[i].ddsEnabled }
       IN  [k \in 1..Cardinality(on) |->
              [type |-> "DDS", station |-> dMasters[Nth(on, k)].label,
               integrity |-> IF dChecks THEN "OK" ELSE "UNKNOWN",
               diffMeters |-> IF dMasters[Nth(on, k)].diffEnabled
                              THEN OrZero(dMasters[Nth(on, k)].avgMeters) ELSE 0]]

\* C23: each broadcast appends to the log exactly one DDS event for every master whose DDS
\* flag is enabled and none for any other master (none at all when global DDS is disabled),
\* and each event carries that master's differential correction (0 when disabled) and the
\* integrity-check setting as they are at the moment of the broadcast.
BroadcastLogsCurrentSettings ==
  [][dBroadcasts' = dBroadcasts + 1 =>
       /\ Len(dLog') >= Len(EventsOwed)
       /\ SubSeq(dLog', Len(dLog') - Len(EventsOwed) + 1, Len(dLog')) = EventsOwed
       /\ IF EventsOwed = << >> THEN dLog' = dLog
          ELSE SubSeq(dLog', 1, Len(dLog') - Len(EventsOwed)) = SliceLog(dLog)]_vars

\* the entries of the log that were in it before the last append
Retained(log, batch) == SubSeq(log, 1, Len(log) - batch)

\* C29: after any sequence of broadcasts and estimates the log holds at most 400 entries and
\* the batch appended last; an append drops only the oldest entries and keeps the retained
\* ones in their order.
LogKeepsLast400 ==
  /\ [](Len(dLog) <= 400 + dBatch)
  /\ [][dLog' # dLog =>
          LET kept == Retained(dLog', dBatch')
          IN  /\ Len(kept) <= Len(dLog)
              /\ kept = SubSeq(dLog, Len(dLog) - Len(kept) + 1, Len(dLog))]_vars

\* a log that was full, after an append that dropped its oldest entries
OldestDropped ==
  /\ dBroadcasts + dEstimates >= 1
  /\ dBatch >= 1
  /\ Len(dLog) = 400 + dBatch

(***************************************************************************)
(* C26: a failing ASF evaluation (specification SpecSampling).              *)
(***************************************************************************)
\* the evaluation of the master's ASF throws, or its sampling call timed out
EvaluationFailed(i) == qMasters[i] \in {"throws", "syntax"} \/ i \in qTimedOut

\* the raster holds no value but 0: it is null, or sampled from a code that throws
ContributesZero(r) == r = NullRaster \/ qMasters[r.source] = "throws"

\* C26: an ASF evaluation that throws or times out for one station contributes 0 metres for
\* that station only: the sampling still completes, and the contribution of every other
\* station is the one its own ASF source yields.
FailedAsfIsZeroForItsStationOnly ==
  qDone =>
    \A i \in DOMAIN qMasters :
      IF EvaluationFailed(i) THEN ContributesZero(qRasters[i])
      ELSE IF qMasters[i] = "none" THEN qRasters[i] = NullRaster
      ELSE qRasters[i] = [source |-> i]

(***************************************************************************)
(* C27: the replies of the shared ASF worker (specification SpecAsf).       *)
(***************************************************************************)
\* the masters whose asfMap the step sets
AsfAssigned == { i \in DOMAIN aMasters : aMasters'[i].asfMap # aMasters[i].asfMap }

\* C27: each response of the ASF worker is consumed only by the request that caused it, also
\* when an earlier request has timed out and several requests are outstanding on the shared
\* worker: a validation is resolved by the reply to its own evaluation, so that a code is made
\* a master's asfMap through the worker only if its own evaluation there returned a result.
ReplyConsumedByItsRequest ==
  [][aWorkerOk => \A i \in AsfAssigned : EvalInWorker(aMasters'[i].asfMap)]_vars

(***************************************************************************)
(* C28: which grid results are applied (specification Spec).                *)
(***************************************************************************)
\* the step is the component's handler applying a grid result
GridResultApplied ==
  /\ mainInbox # << >> /\ mainInbox' = Tail(mainInbox)
  /\ Head(mainInbox).cmd = ResultCmd

\* the step is a compute request
ComputeRequested == nextReq' = nextReq + 1

\* C28: a grid result is applied only if it answers the most recent compute request and no
\* reset has happened since that request (a reset leaves the status empty); after resetAll the
\* grid status stays empty until a new compute is requested.
GridResultAnswersLatestRequest ==
  /\ [][GridResultApplied => (Head(mainInbox).req = nextReq /\ gridStatus # "null")]_vars
  /\ [][(gridStatus = "null" /\ gridStatus' # "null") => ComputeRequested]_vars

============================================================================
